---- MODULE Spec2Model ----
(***************************************************************************)
(* A model of github.com/bradenaw/encode: the byte-aligned items of        *)
(* encode.go (Encoding, the plain and the order-preserving varints, the    *)
(* length-delimited items), the bit buffer and the Bitpacked item, and     *)
(* Tuple.                                                                  *)
(*                                                                         *)
(* A uint64 / int64 is a function 1..64 -> {0,1}, most significant bit     *)
(* first (index 1 is bit 63), so that shifts, masks and conversions lose   *)
(* exactly the bits they lose in Go.  A byte is a number in 0..255 and a   *)
(* []byte a sequence of bytes; Go's index k is index k+1 here.             *)
(***************************************************************************)
EXTENDS Integers, Sequences, FiniteSets, TLC

(***************************************************************************)
(* Bytes                                                                   *)
(***************************************************************************)
BitOf(b, k) == (b \div (2 ^ k)) % 2

ByteAnd(a, b) ==
    IF a = 255 THEN b ELSE IF b = 255 THEN a
    ELSE IF a = 0 \/ b = 0 THEN 0
    ELSE LET o(k) == IF BitOf(a, k) = 1 /\ BitOf(b, k) = 1 THEN 2 ^ k ELSE 0
         IN  o(0) + o(1) + o(2) + o(3) + o(4) + o(5) + o(6) + o(7)

ByteOr(a, b) ==
    IF a = 0 THEN b ELSE IF b = 0 THEN a
    ELSE LET o(k) == IF BitOf(a, k) = 1 \/ BitOf(b, k) = 1 THEN 2 ^ k ELSE 0
         IN  o(0) + o(1) + o(2) + o(3) + o(4) + o(5) + o(6) + o(7)

\* b << k on a byte.
ByteShl(b, k) == IF k < 0 \/ k >= 8 THEN 0 ELSE (b * (2 ^ k)) % 256

\* bits.Len8
RECURSIVE Len8(_)
Len8(b) == IF b = 0 THEN 0 ELSE 1 + Len8(b \div 2)

\* bits.LeadingZeros8(^b): the number of leading one bits of b.
RECURSIVE LeadingOnes8From(_, _)
LeadingOnes8From(b, k) ==
    IF k < 0 \/ BitOf(b, k) = 0 THEN 0 ELSE 1 + LeadingOnes8From(b, k - 1)

\* bits.LeadingZeros8(b), the count without the complement: a faulty variant
\* of LeadingOnes8 under which the decoded length is wrong.
LeadingZeros8(b) == 8 - Len8(b)

LeadingOnes8(b) == LeadingOnes8From(b, 7)

\* a / b in Go: truncated toward zero (TLA+'s \div rounds down).
GoDiv(a, b) == IF a >= 0 THEN a \div b ELSE -((-a) \div b)

\* bytes.Compare(a, b) < 0
RECURSIVE BytesLtFrom(_, _, _)
BytesLtFrom(a, b, i) ==
    IF i > Len(b) THEN FALSE
    ELSE IF i > Len(a) THEN TRUE
    ELSE IF a[i] # b[i] THEN a[i] < b[i]
    ELSE BytesLtFrom(a, b, i + 1)

BytesLt(a, b) == BytesLtFrom(a, b, 1)

\* make([]byte, n)
ZeroRun ==
    <<0, 0, 0, 0, 0, 0, 0, 0, 0, 0, 0, 0, 0, 0, 0, 0, 0, 0, 0, 0, 0, 0, 0, 0,
      0, 0, 0, 0, 0, 0, 0, 0, 0, 0, 0, 0, 0, 0, 0, 0, 0, 0, 0, 0, 0, 0, 0, 0>>

ZeroBytes(n) == IF n <= 48 THEN SubSeq(ZeroRun, 1, n) ELSE [i \in 1..n |-> 0]

\* copy(dst, src): dst afterwards.
Copy(dst, src) ==
    LET k == IF Len(dst) < Len(src) THEN Len(dst) ELSE Len(src)
    IN  SubSeq(src, 1, k) \o SubSeq(dst, k + 1, Len(dst))

(***************************************************************************)
(* 64-bit words: uint64 and int64 (two's complement), as their 8 bytes     *)
(***************************************************************************)
Zero64 == <<0, 0, 0, 0, 0, 0, 0, 0>>

\* Byte i of x, 0 outside 1..8.
Limb(x, i) == IF i >= 1 /\ i <= 8 THEN x[i] ELSE 0

\* x << k on a uint64 or an int64; a shift count of 64 or more (a negative
\* int converted to uint is one) leaves no bit.
Shl(x, k) ==
    IF k < 0 \/ k >= 64 THEN Zero64
    ELSE LET q == k \div 8
             r == k % 8
             f(i) == ((Limb(x, i + q) * (2 ^ r)) % 256)
                        + (Limb(x, i + q + 1) \div (2 ^ (8 - r)))
         IN  <<f(1), f(2), f(3), f(4), f(5), f(6), f(7), f(8)>>

\* x >> k on a uint64 (logical).
Shr(x, k) ==
    IF k < 0 \/ k >= 64 THEN Zero64
    ELSE LET q == k \div 8
             r == k % 8
             f(i) == (Limb(x, i - q) \div (2 ^ r))
                        + ((Limb(x, i - q - 1) % (2 ^ r)) * (2 ^ (8 - r)))
         IN  <<f(1), f(2), f(3), f(4), f(5), f(6), f(7), f(8)>>

Or64(x, y) ==
    <<ByteOr(x[1], y[1]), ByteOr(x[2], y[2]), ByteOr(x[3], y[3]),
      ByteOr(x[4], y[4]), ByteOr(x[5], y[5]), ByteOr(x[6], y[6]),
      ByteOr(x[7], y[7]), ByteOr(x[8], y[8])>>

And64(x, y) ==
    <<ByteAnd(x[1], y[1]), ByteAnd(x[2], y[2]), ByteAnd(x[3], y[3]),
      ByteAnd(x[4], y[4]), ByteAnd(x[5], y[5]), ByteAnd(x[6], y[6]),
      ByteAnd(x[7], y[7]), ByteAnd(x[8], y[8])>>

\* ^x
Not64(x) ==
    <<255 - x[1], 255 - x[2], 255 - x[3], 255 - x[4],
      255 - x[5], 255 - x[6], 255 - x[7], 255 - x[8]>>

\* The index of the lowest-order byte of x that is not b, from index i
\* down, or 0.
RECURSIVE LastNot(_, _, _)
LastNot(x, b, i) ==
    IF i = 0 THEN 0 ELSE IF x[i] # b THEN i ELSE LastNot(x, b, i - 1)

\* x - 1 and x + 1, wrapping at 64 bits.
Dec64(x) ==
    LET p == LastNot(x, 0, 8)
        f(i) == IF i < p THEN x[i] ELSE IF i = p THEN x[i] - 1 ELSE 255
    IN  <<f(1), f(2), f(3), f(4), f(5), f(6), f(7), f(8)>>

Inc64(x) ==
    LET p == LastNot(x, 255, 8)
        f(i) == IF i < p THEN x[i] ELSE IF i = p THEN x[i] + 1 ELSE 0
    IN  <<f(1), f(2), f(3), f(4), f(5), f(6), f(7), f(8)>>

\* byte(x): the low 8 bits.
ByteOf(x) == x[8]

\* uint64(b) of a byte b.
FromByte(b) == <<0, 0, 0, 0, 0, 0, 0, b>>

\* uint64(n) of an int n, 0 <= n < 2^24.
FromInt(n) == <<0, 0, 0, 0, 0, (n \div 65536) % 256, (n \div 256) % 256, n % 256>>

\* byte(x >> k) for a uint64 or an int64 x and a k that is a multiple of 8
\* in 0..56: the same eight bits under the logical and the arithmetic shift.
ByteAt(x, k) == x[8 - (k \div 8)]

\* bits.Len64
Len64(x) ==
    LET first == LastNot(<<x[8], x[7], x[6], x[5], x[4], x[3], x[2], x[1]>>, 0, 8)
    IN  IF first = 0 THEN 0 ELSE 8 * (first - 1) + Len8(x[9 - first])

\* x < y as uint64, and as int64.
RECURSIVE ULtFrom(_, _, _)
ULtFrom(x, y, i) ==
    IF i > 8 THEN FALSE
    ELSE IF x[i] # y[i] THEN x[i] < y[i]
    ELSE ULtFrom(x, y, i + 1)

ULt(x, y) == ULtFrom(x, y, 1)

SLt(x, y) ==
    IF x[1] # y[1] THEN (x[1] + 128) % 256 < (y[1] + 128) % 256
    ELSE ULtFrom(x, y, 2)

\* x <= y with both operands taken as uint64: a faulty variant of SLe.
SLeUnsigned(x, y) == ~ULt(y, x)

SLe(x, y) == ~SLt(y, x)

\* The integer constants of the band tables, tabulated for k = 0..64:
\* 1<<k (0 for k = 64), (1<<k)-1, -(1<<k), -(1<<k)+1.
Pow2Table ==
    SubSeq([n \in 1..65 |->
              LET f(i) == IF (n - 1) \div 8 = 8 - i THEN 2 ^ ((n - 1) % 8) ELSE 0
              IN  <<f(1), f(2), f(3), f(4), f(5), f(6), f(7), f(8)>>],
           1, 65)

Pow2W(k) == Pow2Table[k + 1]

Pow2Minus1Table == SubSeq([n \in 1..65 |-> Dec64(Pow2Table[n])], 1, 65)

Pow2Minus1W(k) == Pow2Minus1Table[k + 1]

NegPow2Table == SubSeq([n \in 1..65 |-> Not64(Pow2Minus1Table[n])], 1, 65)

NegPow2W(k) == NegPow2Table[k + 1]

NegPow2Plus1Table == SubSeq([n \in 1..65 |-> Inc64(NegPow2Table[n])], 1, 65)

NegPow2Plus1W(k) == NegPow2Plus1Table[k + 1]

\* binary.BigEndian.PutUint64 writes the 8 bytes of x; binary.BigEndian.Uint64
\* reads the 8 bytes of b from Go index `from`.
BigEndian8(x) == x

Uint64At(b, from) == SubSeq(b, from + 1, from + 8)

(***************************************************************************)
(* Results of the operations that can panic or return an error             *)
(***************************************************************************)
\* Encode into buf: the bytes of buf afterwards, or a panic (an index or a
\* slice bound out of range).
Wrote(b) == [ok |-> TRUE, b |-> b]

Panicked == [ok |-> FALSE, b |-> <<>>]

\* Decode: the error returned, the value the location holds afterwards, and
\* the number of leading bytes of buf the decoder has used.
Decoded(v, n) == [err |-> "nil", v |-> v, read |-> n]

Failed(e, old) == [err |-> e, v |-> old, read |-> 0]

\* buf[0], buf[1], ... = bs[1], bs[2], ...: plain stores, in order.
Store(buf, bs) ==
    IF Len(buf) < Len(bs) THEN Panicked
    ELSE Wrote(bs \o SubSeq(buf, Len(bs) + 1, Len(buf)))

\* uint64(ps[1][1]) << ps[1][2] | uint64(ps[2][1]) << ps[2][2] | ...
RECURSIVE OrShifted(_)
OrShifted(ps) ==
    IF ps = <<>> THEN Zero64
    ELSE Or64(Shl(FromByte(Head(ps)[1]), Head(ps)[2]), OrShifted(Tail(ps)))

(***************************************************************************)
(* OrdUvarint64                                                            *)
(***************************************************************************)
\* The minimal big-endian bytes of v, right-aligned in buf, with no unary
\* length prefix: a faulty variant of OrdUvarint64Encode.
OrdUvarint64EncodeNoPrefix(v, buf) ==
    IF Len(buf) < 1 THEN Panicked
    ELSE IF Len(buf) > 8 THEN Wrote(v \o SubSeq(buf, 9, Len(buf)))
    ELSE Wrote(SubSeq(v, 9 - Len(buf), 8))

OrdUvarint64Encode(v, buf) ==
    LET l == Len64(v)
        nBytes == (l + 6) \div 7
        nLeadingOnes == nBytes - 1
        prefix == ByteShl((ByteShl(1, nLeadingOnes) - 1) % 256, 8 - nLeadingOnes)
        part(i) == ByteAt(v, (nBytes - i - 1) * 8)
    IN  IF l > 56
        THEN IF Len(buf) < 9 THEN Panicked
             ELSE Wrote(<<255>> \o BigEndian8(v) \o SubSeq(buf, 10, Len(buf)))
        ELSE IF Len(buf) < 1 \/ Len(buf) < nBytes THEN Panicked
             ELSE IF nBytes = 0 THEN Wrote(<<prefix>> \o Tail(buf))
             ELSE Wrote(<<ByteOr(prefix, part(0))>>
                        \o [i \in 1..(nBytes - 1) |-> ByteOr(buf[i + 1], part(i))]
                        \o SubSeq(buf, nBytes + 1, Len(buf)))

\* 1 + L/7: a faulty variant of OrdUvarint64Size, one byte too many when L
\* is a multiple of 7.
OrdUvarint64SizeCeil(v) ==
    LET l == Len64(v)
    IN  IF l > 56 THEN 9 ELSE 1 + (l \div 7)

OrdUvarint64Size(v) ==
    LET l == Len64(v)
    IN  IF l > 56 THEN 9 ELSE 1 + GoDiv(l - 1, 7)

\* A decoder that checks only for the empty buffer and takes the bytes that
\* are missing as zero: a faulty variant of OrdUvarint64Decode.
OrdUvarint64DecodeZeroFill(buf, old) ==
    IF Len(buf) < 1 THEN Failed("ErrUnexpectedEOF", old)
    ELSE
    LET padded == buf \o ZeroBytes(9)
        nBytes == LeadingOnes8(buf[1]) + 1
        rBits == nBytes * 7
        rBytes == (rBits + 8) \div 8
        result == OrShifted([i \in 1..nBytes |->
                      <<padded[i], (rBytes * 8) - ((i - 1) * 8) - 8>>])
    IN  IF rBits = 63 THEN Decoded(Uint64At(padded, 1), 9)
        ELSE Decoded(And64(result, Dec64(Shl(FromInt(1), rBits))), nBytes)

OrdUvarint64Decode(buf, old) ==
    IF Len(buf) < 1 THEN Failed("ErrUnexpectedEOF", old)
    ELSE
    LET nLeadingOnes == LeadingOnes8(buf[1])
        nBytes == nLeadingOnes + 1
        rBits == nBytes * 7
        rBytes == (rBits + 8) \div 8
        result == OrShifted([i \in 1..nBytes |->
                      <<buf[i], (rBytes * 8) - ((i - 1) * 8) - 8>>])
        mask == Dec64(Shl(FromInt(1), rBits))
    IN  IF rBits = 63
        THEN IF Len(buf) < 9 THEN Failed("ErrUnexpectedEOF", old)
             ELSE Decoded(Uint64At(buf, 1), 9)
        ELSE IF Len(buf) < nBytes THEN Failed("ErrUnexpectedEOF", old)
             ELSE Decoded(And64(result, mask), nBytes)

(***************************************************************************)
(* OrdVarint64                                                             *)
(***************************************************************************)
\* byte(v >> k) of an int64 v.
SB(v, k) == ByteAt(v, k)

\* The switch of ordVarint64.Encode: the first case whose condition holds
\* stores its bytes; the cases are tried in the order written.
OrdVarint64Encode(v, buf) ==
    IF SLe(v, NegPow2Plus1W(55))
        THEN Store(buf, <<0, ByteAnd(SB(v, 56), 127), SB(v, 48), SB(v, 40),
                    SB(v, 32), SB(v, 24), SB(v, 16), SB(v, 8), SB(v, 0)>>)
    ELSE IF SLe(NegPow2W(55), v) /\ SLe(v, NegPow2Plus1W(48))
        THEN Store(buf, <<0, ByteOr(128, SB(v, 48)), SB(v, 40), SB(v, 32),
                    SB(v, 24), SB(v, 16), SB(v, 8), SB(v, 0)>>)
    ELSE IF SLe(NegPow2W(48), v) /\ SLe(v, NegPow2Plus1W(41))
        THEN Store(buf, <<1, SB(v, 40), SB(v, 32), SB(v, 24), SB(v, 16),
                    SB(v, 8), SB(v, 0)>>)
    ELSE IF SLe(NegPow2W(41), v) /\ SLe(v, NegPow2Plus1W(34))
        THEN Store(buf, <<ByteOr(2, ByteAnd(SB(v, 40), 1)), SB(v, 32), SB(v,
                    24), SB(v, 16), SB(v, 8), SB(v, 0)>>)
    ELSE IF SLe(NegPow2W(34), v) /\ SLe(v, NegPow2Plus1W(27))
        THEN Store(buf, <<ByteOr(4, ByteAnd(SB(v, 32), 3)), SB(v, 24), SB(v,
                    16), SB(v, 8), SB(v, 0)>>)
    ELSE IF SLe(NegPow2W(27), v) /\ SLe(v, NegPow2Plus1W(20))
        THEN Store(buf, <<ByteOr(8, ByteAnd(SB(v, 24), 7)), SB(v, 16), SB(v,
                    8), SB(v, 0)>>)
    ELSE IF SLe(NegPow2W(20), v) /\ SLe(v, NegPow2Plus1W(13))
        THEN Store(buf, <<ByteOr(16, ByteAnd(SB(v, 16), 15)), SB(v, 8), SB(v,
                    0)>>)
    ELSE IF SLe(NegPow2W(13), v) /\ SLe(v, NegPow2Plus1W(6))
        THEN Store(buf, <<ByteOr(32, ByteAnd(SB(v, 8), 31)), SB(v, 0)>>)
    ELSE IF SLe(NegPow2W(6), v) /\ SLe(v, NegPow2W(0))
        THEN Store(buf, <<ByteOr(64, ByteAnd(SB(v, 0), 63))>>)
    ELSE IF SLe(Zero64, v) /\ SLe(v, Pow2Minus1W(6))
        THEN Store(buf, <<ByteOr(128, SB(v, 0))>>)
    ELSE IF SLe(Pow2W(6), v) /\ SLe(v, Pow2Minus1W(13))
        THEN Store(buf, <<ByteOr(192, SB(v, 8)), SB(v, 0)>>)
    ELSE IF SLe(Pow2W(13), v) /\ SLe(v, Pow2Minus1W(20))
        THEN Store(buf, <<ByteOr(224, SB(v, 16)), SB(v, 8), SB(v, 0)>>)
    ELSE IF SLe(Pow2W(20), v) /\ SLe(v, Pow2Minus1W(27))
        THEN Store(buf, <<ByteOr(240, SB(v, 24)), SB(v, 16), SB(v, 8), SB(v,
                    0)>>)
    ELSE IF SLe(Pow2W(27), v) /\ SLe(v, Pow2Minus1W(34))
        THEN Store(buf, <<ByteOr(248, SB(v, 32)), SB(v, 24), SB(v, 16), SB(v,
                    8), SB(v, 0)>>)
    ELSE IF SLe(Pow2W(34), v) /\ SLe(v, Pow2Minus1W(41))
        THEN Store(buf, <<ByteOr(252, SB(v, 40)), SB(v, 32), SB(v, 24), SB(v,
                    16), SB(v, 8), SB(v, 0)>>)
    ELSE IF SLe(Pow2W(41), v) /\ SLe(v, Pow2Minus1W(48))
        THEN Store(buf, <<ByteOr(254, SB(v, 48)), SB(v, 40), SB(v, 32), SB(v,
                    24), SB(v, 16), SB(v, 8), SB(v, 0)>>)
    ELSE IF SLe(Pow2W(48), v) /\ SLe(v, Pow2Minus1W(55))
        THEN Store(buf, <<255, SB(v, 48), SB(v, 40), SB(v, 32), SB(v, 24),
                    SB(v, 16), SB(v, 8), SB(v, 0)>>)
    ELSE IF SLe(Pow2W(55), v)
        THEN Store(buf, <<255, ByteOr(128, SB(v, 56)), SB(v, 48), SB(v, 40),
                    SB(v, 32), SB(v, 24), SB(v, 16), SB(v, 8), SB(v, 0)>>)
    ELSE Wrote(buf)

\* The switch of ordVarint64.Size.
OrdVarint64Size(v) ==
    IF SLe(v, NegPow2Plus1W(55)) THEN 9
    ELSE IF SLe(NegPow2W(55), v) /\ SLe(v, NegPow2Plus1W(48)) THEN 8
    ELSE IF SLe(NegPow2W(48), v) /\ SLe(v, NegPow2Plus1W(41)) THEN 7
    ELSE IF SLe(NegPow2W(41), v) /\ SLe(v, NegPow2Plus1W(34)) THEN 6
    ELSE IF SLe(NegPow2W(34), v) /\ SLe(v, NegPow2Plus1W(27)) THEN 5
    ELSE IF SLe(NegPow2W(27), v) /\ SLe(v, NegPow2Plus1W(20)) THEN 4
    ELSE IF SLe(NegPow2W(20), v) /\ SLe(v, NegPow2Plus1W(13)) THEN 3
    ELSE IF SLe(NegPow2W(13), v) /\ SLe(v, NegPow2Plus1W(6)) THEN 2
    ELSE IF SLe(NegPow2W(6), v) /\ SLe(v, Pow2Minus1W(6)) THEN 1
    ELSE IF SLe(Pow2W(6), v) /\ SLe(v, Pow2Minus1W(13)) THEN 2
    ELSE IF SLe(Pow2W(13), v) /\ SLe(v, Pow2Minus1W(20)) THEN 3
    ELSE IF SLe(Pow2W(20), v) /\ SLe(v, Pow2Minus1W(27)) THEN 4
    ELSE IF SLe(Pow2W(27), v) /\ SLe(v, Pow2Minus1W(34)) THEN 5
    ELSE IF SLe(Pow2W(34), v) /\ SLe(v, Pow2Minus1W(41)) THEN 6
    ELSE IF SLe(Pow2W(41), v) /\ SLe(v, Pow2Minus1W(48)) THEN 7
    ELSE IF SLe(Pow2W(48), v) /\ SLe(v, Pow2Minus1W(55)) THEN 8
    ELSE IF SLe(Pow2W(55), v) THEN 9
    ELSE -1

\* uint64(buf[from]) << 8*(n-1) | ... | uint64(buf[from+n-1]), as the pairs
\* OrShifted takes (from is Go's index).
BE(buf, from, n) == [i \in 1..n |-> <<buf[from + i], 8 * (n - i)>>]

\* A band decoded without OR'ing the high bits in: a faulty variant of Band
\* that restores no leading ones.
BandNoSignExtension(buf, old, n, hi, m) ==
    IF Len(buf) < n THEN Failed("ErrUnexpectedEOF", old)
    ELSE Decoded(OrShifted(<<<<ByteAnd(buf[1], m), 8 * (n - 1)>>>>
                             \o BE(buf, 1, n - 1)), n)

\* A band that returns ErrInvalidVarint for a value that Size() gives another
\* length than n: a variant of Band that accepts canonical encodings only.
BandCanonical(buf, old, n, hi, m) ==
    IF Len(buf) < n THEN Failed("ErrUnexpectedEOF", old)
    ELSE LET check(v) ==
                 IF OrdVarint64Size(v) # n THEN Failed("ErrInvalidVarint", old)
                 ELSE Decoded(v, n)
         IN  check(Or64(hi, OrShifted(<<<<ByteAnd(buf[1], m), 8 * (n - 1)>>>>
                                        \o BE(buf, 1, n - 1))))

\* One band of ordVarint64.Decode: n bytes in all, the high bits `hi` OR'ed
\* with the low bits of buf[0] under `m` and with the n-1 bytes that follow.
Band(buf, old, n, hi, m) ==
    IF Len(buf) < n THEN Failed("ErrUnexpectedEOF", old)
    ELSE Decoded(Or64(hi, OrShifted(<<<<ByteAnd(buf[1], m), 8 * (n - 1)>>>>
                                      \o BE(buf, 1, n - 1))), n)

OrdVarint64Decode(buf, old) ==
    IF Len(buf) < 1 THEN Failed("ErrUnexpectedEOF", old)
    ELSE IF ByteAnd(buf[1], 128) = 0 THEN
        IF buf[1] = 0 THEN
            IF Len(buf) < 8 THEN Failed("ErrUnexpectedEOF", old)
            ELSE IF ByteAnd(buf[2], 128) = 0 THEN
                IF Len(buf) < 9 THEN Failed("ErrUnexpectedEOF", old)
                ELSE Decoded(Or64(Pow2W(63), OrShifted(BE(buf, 1, 8))), 9)
            ELSE Decoded(Or64(NegPow2W(56), OrShifted(BE(buf, 1, 7))), 8)
        ELSE IF buf[1] = 1 THEN Band(buf, old, 7, NegPow2W(48), 0)
        ELSE IF ByteAnd(buf[1], 254) = 2 THEN Band(buf, old, 6, NegPow2W(41), 1)
        ELSE IF ByteAnd(buf[1], 252) = 4 THEN Band(buf, old, 5, NegPow2W(34), 3)
        ELSE IF ByteAnd(buf[1], 248) = 8 THEN Band(buf, old, 4, NegPow2W(27), 7)
        ELSE IF ByteAnd(buf[1], 240) = 16 THEN Band(buf, old, 3, NegPow2W(20), 15)
        ELSE IF ByteAnd(buf[1], 224) = 32 THEN Band(buf, old, 2, NegPow2W(13), 31)
        ELSE IF ByteAnd(buf[1], 192) = 64 THEN Band(buf, old, 1, NegPow2W(6), 63)
        ELSE Failed("ErrInvalidVarint", old)
    ELSE IF ByteAnd(buf[1], 128) = 128 THEN
        IF ByteAnd(buf[1], 192) = 128 THEN Band(buf, old, 1, Zero64, 63)
        ELSE IF ByteAnd(buf[1], 224) = 192 THEN Band(buf, old, 2, Zero64, 31)
        ELSE IF ByteAnd(buf[1], 240) = 224 THEN Band(buf, old, 3, Zero64, 15)
        ELSE IF ByteAnd(buf[1], 248) = 240 THEN Band(buf, old, 4, Zero64, 7)
        ELSE IF ByteAnd(buf[1], 252) = 248 THEN Band(buf, old, 5, Zero64, 3)
        ELSE IF ByteAnd(buf[1], 254) = 252 THEN Band(buf, old, 6, Zero64, 1)
        ELSE IF buf[1] = 254 THEN Band(buf, old, 7, Zero64, 0)
        ELSE IF buf[1] = 255 THEN
            IF Len(buf) < 8 THEN Failed("ErrUnexpectedEOF", old)
            ELSE IF ByteAnd(buf[2], 128) = 0
                THEN Decoded(OrShifted(BE(buf, 1, 7)), 8)
            ELSE IF Len(buf) < 9 THEN Failed("ErrUnexpectedEOF", old)
            ELSE Decoded(OrShifted(<<<<ByteAnd(buf[2], 127), 56>>>>
                                     \o BE(buf, 2, 7)), 9)
        ELSE Failed("ErrInvalidVarint", old)
    ELSE Failed("ErrInvalidVarint", old)

(***************************************************************************)
(* encoding/binary varints, as Uvarint32, Uvarint64 and the length-        *)
(* delimited items call them                                               *)
(***************************************************************************)
\* binary.PutUvarint(buf, x) from index i on (Go index): 7 bits a byte, low
\* bits first, the high bit set on all but the last; the bytes of buf
\* afterwards and the number written, or a panic (index out of range).
RECURSIVE PutUvarintFrom(_, _, _)
PutUvarintFrom(buf, x, i) ==
    IF i >= Len(buf) THEN [ok |-> FALSE, b |-> <<>>, n |-> 0]
    ELSE IF ~ULt(x, FromInt(128))
        THEN PutUvarintFrom([buf EXCEPT ![i + 1] = ByteOr(ByteOf(x), 128)],
                            Shr(x, 7), i + 1)
    ELSE [ok |-> TRUE, b |-> [buf EXCEPT ![i + 1] = ByteOf(x)], n |-> i + 1]

PutUvarint(buf, x) == PutUvarintFrom(buf, x, 0)

\* binary.Uvarint(buf) from index i on, x and s being the value and the
\* shift so far: the value and the number of bytes read; n = 0 when buf ends
\* before the last byte, n < 0 on a value over 64 bits.
RECURSIVE UvarintFrom(_, _, _, _)
UvarintFrom(buf, i, x, s) ==
    IF i >= Len(buf) THEN [v |-> Zero64, n |-> 0]
    ELSE IF i = 10 THEN [v |-> Zero64, n |-> -(i + 1)]
    ELSE IF buf[i + 1] < 128
        THEN IF i = 9 /\ buf[i + 1] > 1
             THEN [v |-> Zero64, n |-> -(i + 1)]
             ELSE [v |-> Or64(x, Shl(FromByte(buf[i + 1]), s)), n |-> i + 1]
    ELSE UvarintFrom(buf, i + 1,
                     Or64(x, Shl(FromByte(ByteAnd(buf[i + 1], 127)), s)), s + 7)

Uvarint(buf) == UvarintFrom(buf, 0, Zero64, 0)

\* uvarintSize(x)
UvarintSize(x) == PutUvarint(ZeroBytes(10), x).n

\* int(l) of a uint64 l below 2^16.
ToInt(l) == l[7] * 256 + l[8]

(***************************************************************************)
(* The byte-aligned items                                                  *)
(***************************************************************************)
\* padding
PaddingEncode(n, buf) == Wrote(buf)

PaddingSize(n) == n

PaddingDecode(n, buf) ==
    IF Len(buf) < n THEN Failed("ErrUnexpectedEOF", n) ELSE Decoded(n, n)

\* encByte
ByteEncode(v, buf) ==
    IF Len(buf) < 1 THEN Panicked ELSE Wrote([buf EXCEPT ![1] = v])

ByteSize(v) == 1

ByteDecode(buf, old) ==
    IF Len(buf) < 1 THEN Failed("ErrUnexpectedEOF", old) ELSE Decoded(buf[1], 1)

\* encBool
BoolEncode(v, buf) ==
    IF v THEN IF Len(buf) < 1 THEN Panicked ELSE Wrote([buf EXCEPT ![1] = 1])
    ELSE Wrote(buf)

BoolSize(v) == 1

BoolDecode(buf, old) ==
    IF Len(buf) < 1 THEN Failed("ErrUnexpectedEOF", old)
    ELSE IF buf[1] = 0 THEN Decoded(FALSE, 1)
    ELSE IF buf[1] = 1 THEN Decoded(TRUE, 1)
    ELSE Failed("ErrInvalidBool", old)

\* bigEndianUint16: v is a uint16, 0..65535.
BigEndianUint16Encode(v, buf) ==
    IF Len(buf) < 2 THEN Panicked
    ELSE Wrote(<<v \div 256, v % 256>> \o SubSeq(buf, 3, Len(buf)))

BigEndianUint16Size(v) == 2

BigEndianUint16Decode(buf, old) ==
    IF Len(buf) < 2 THEN Failed("ErrUnexpectedEOF", old)
    ELSE Decoded(buf[1] * 256 + buf[2], 2)

\* uvarint32: v is a uint32, a word whose high 4 bytes are 0.  Decode
\* compares n, the number of bytes read, with math.MaxUint32, and stores
\* uint32(l).
Uint32Of(l) == <<0, 0, 0, 0, l[5], l[6], l[7], l[8]>>

MaxUint32 == <<0, 0, 0, 0, 255, 255, 255, 255>>

Uvarint32Encode(v, buf) ==
    LET done(p) == IF p.ok THEN Wrote(p.b) ELSE Panicked
    IN  done(PutUvarint(buf, v))

Uvarint32Size(v) == UvarintSize(v)

Uvarint32Decode(buf, old) ==
    LET done(u) ==
            IF u.n = 0 THEN Failed("ErrUnexpectedEOF", old)
            ELSE IF u.n < 0 THEN Failed("ErrOverflowVarint", old)
            ELSE IF ULt(MaxUint32, FromInt(u.n)) THEN Failed("ErrOverflowVarint", old)
            ELSE Decoded(Uint32Of(u.v), u.n)
    IN  done(Uvarint(buf))

\* uvarint64
Uvarint64Encode(v, buf) ==
    LET done(p) == IF p.ok THEN Wrote(p.b) ELSE Panicked
    IN  done(PutUvarint(buf, v))

Uvarint64Size(v) == UvarintSize(v)

Uvarint64Decode(buf, old) ==
    LET done(u) ==
            IF u.n = 0 THEN Failed("ErrUnexpectedEOF", old)
            ELSE IF u.n < 0 THEN Failed("ErrOverflowVarint", old)
            ELSE Decoded(u.v, u.n)
    IN  done(Uvarint(buf))

\* lengthDelimBytes: v is a []byte.  Encode writes the length and then
\* copies v[n:] to the start of buf; v[n:] with n > len(v) panics.
LengthDelimBytesEncode(v, buf) ==
    LET done(p) ==
            IF ~p.ok THEN Panicked
            ELSE IF p.n > Len(v) THEN Panicked
            ELSE Wrote(Copy(p.b, SubSeq(v, p.n + 1, Len(v))))
    IN  done(PutUvarint(buf, FromInt(Len(v))))

LengthDelimBytesSize(v) == UvarintSize(FromInt(Len(v))) + Len(v)

\* Decode makes *e.v a new slice of l zero bytes and copies it over
\* buf[n:]: the result carries the bytes of buf afterwards.
LengthDelimBytesDecode(buf, old) ==
    LET failed(e) == [err |-> e, v |-> old, read |-> 0, b |-> buf]
        done(u, l) ==
            IF u.n = 0 THEN failed("ErrUnexpectedEOF")
            ELSE IF u.n < 0 THEN failed("ErrOverflowVarint")
            ELSE IF ULt(FromInt(Len(buf) - u.n), u.v) THEN failed("ErrUnexpectedEOF")
            ELSE [err |-> "nil", v |-> ZeroBytes(l), read |-> u.n + l,
                  b |-> SubSeq(buf, 1, u.n) \o ZeroBytes(l)
                            \o SubSeq(buf, u.n + l + 1, Len(buf))]
        length(u) == done(u, ToInt(u.v))
    IN  length(Uvarint(buf))

\* lengthDelimString: v is a string, its bytes.  Encode is written as that
\* of lengthDelimBytes is; Decode makes *e.v the string of all of buf[n:].
LengthDelimStringEncode(v, buf) ==
    LET done(p) ==
            IF ~p.ok THEN Panicked
            ELSE IF p.n > Len(v) THEN Panicked
            ELSE Wrote(Copy(p.b, SubSeq(v, p.n + 1, Len(v))))
    IN  done(PutUvarint(buf, FromInt(Len(v))))

LengthDelimStringSize(v) == UvarintSize(FromInt(Len(v))) + Len(v)

LengthDelimStringDecode(buf, old) ==
    LET done(u) ==
            IF u.n = 0 THEN Failed("ErrUnexpectedEOF", old)
            ELSE IF u.n < 0 THEN Failed("ErrOverflowVarint", old)
            ELSE IF ULt(FromInt(Len(buf) - u.n), u.v)
                THEN Failed("ErrUnexpectedEOF", old)
            ELSE Decoded(SubSeq(buf, u.n + 1, Len(buf)), Len(buf))
    IN  done(Uvarint(buf))

(***************************************************************************)
(* bitBuffer: the bytes b and the bit index i                              *)
(***************************************************************************)
MinInt(a, b) == IF a < b THEN a ELSE b

\* b.availInByte() and b.lenBits()
AvailInByte(i) == 8 - (i % 8)

LenBits(b) == Len(b) * 8

\* The loop of writeBits, n bits being left and j bytes done.
RECURSIVE WriteLoop(_, _, _, _, _)
WriteLoop(b, i, n, j, shiftedX) ==
    IF n <= 0 THEN [ok |-> TRUE, b |-> b, i |-> i]
    ELSE LET take == MinInt(AvailInByte(i), n)
         IN  WriteLoop([b EXCEPT ![(i \div 8) + 1] =
                            ByteOr(@, ByteOf(Shr(shiftedX, 56 - (j * 8))))],
                       i + take, n - take, j + 1, shiftedX)

\* b.writeBits(x, n): the buffer afterwards, or the panic errBufferOverrun.
WriteBits(bb, x, n) ==
    IF bb.i + n > LenBits(bb.b) THEN [ok |-> FALSE, b |-> bb.b, i |-> bb.i]
    ELSE WriteLoop(bb.b, bb.i, n, 0, Shr(Shl(x, 64 - n), bb.i % 8))

\* The loop of readBits.
RECURSIVE ReadLoop(_, _, _, _, _, _)
ReadLoop(b, i, n, j, mask, result) ==
    IF n <= 0 THEN [result |-> result, i |-> i]
    ELSE LET take == MinInt(AvailInByte(i), n)
         IN  ReadLoop(b, i + take, n - take, j + 1, mask,
                      Or64(result,
                           And64(Shl(FromByte(b[(i \div 8) + 1]), 56 - (j * 8)),
                                 mask)))

\* A readBits that leaves the cursor at the end of the buffer when it
\* returns io.ErrUnexpectedEOF: a faulty variant of ReadBits.
ReadBitsToEnd(bb, n) ==
    IF bb.i + n > LenBits(bb.b)
    THEN [err |-> "ErrUnexpectedEOF", v |-> Zero64, i |-> LenBits(bb.b)]
    ELSE LET done(shift, r) == [err |-> "nil", v |-> Shr(r.result, shift), i |-> r.i]
             loop(shift) ==
                 done(shift,
                      ReadLoop(bb.b, bb.i, n, 0,
                               Shl(Dec64(Shl(FromInt(1), n)), shift), Zero64))
         IN  loop(64 - n - (bb.i % 8))

\* b.readBits(n): the error, the bits read and the bit index afterwards.
ReadBits(bb, n) ==
    IF bb.i + n > LenBits(bb.b)
    THEN [err |-> "ErrUnexpectedEOF", v |-> Zero64, i |-> bb.i]
    ELSE LET done(shift, r) == [err |-> "nil", v |-> Shr(r.result, shift), i |-> r.i]
             loop(shift) ==
                 done(shift,
                      ReadLoop(bb.b, bb.i, n, 0,
                               Shl(Dec64(Shl(FromInt(1), n)), shift), Zero64))
         IN  loop(64 - n - (bb.i % 8))

(***************************************************************************)
(* BitpackItem, by kind.  A child is [kind, n, v]: n the width (0 where    *)
(* the kind has none) and v what the value location holds: a BOOLEAN for   *)
(* Bit, a sequence of BOOLEAN for BitFlags, a byte for Bits8, a uint16 for *)
(* Bits16, and a word for Bits32 (the high 4 bytes 0) and Bits64.          *)
(***************************************************************************)
BitChild(kind, n, v) == [kind |-> kind, n |-> n, v |-> v]

\* uint64(x) of a bool as bitItem.encode and bitFlags.encode write it.
BoolBit(x) == IF x THEN FromInt(1) ELSE Zero64

\* uint64(*e.v) for the BitsN kinds.
BitsWord(it) ==
    IF it.kind = "Bits8" THEN FromByte(it.v)
    ELSE IF it.kind = "Bits16" THEN FromInt(it.v)
    ELSE it.v

\* byte(bits), uint16(bits), uint32(bits) and bits itself.
BitsNarrow(kind, bits) ==
    IF kind = "Bits8" THEN bits[8]
    ELSE IF kind = "Bits16" THEN bits[7] * 256 + bits[8]
    ELSE IF kind = "Bits32" THEN <<0, 0, 0, 0, bits[5], bits[6], bits[7], bits[8]>>
    ELSE bits

\* A size that counts a BitFlags child as one bit: a faulty variant of
\* BitSize.
BitSizeOneFlag(it) ==
    IF it.kind \in {"BitFlags", "Bit"} THEN 1 ELSE it.n

\* item.size()
BitSize(it) ==
    IF it.kind = "BitFlags" THEN Len(it.v)
    ELSE IF it.kind = "Bit" THEN 1
    ELSE it.n

\* bitFlags.encode from flag k on.
RECURSIVE FlagsEncode(_, _, _)
FlagsEncode(v, k, bb) ==
    IF k > Len(v) THEN [ok |-> TRUE, b |-> bb.b, i |-> bb.i]
    ELSE LET next(w) ==
                 IF ~w.ok THEN w ELSE FlagsEncode(v, k + 1, [b |-> w.b, i |-> w.i])
         IN  next(WriteBits(bb, BoolBit(v[k]), 1))

\* item.encode(b)
BitEncode(it, bb) ==
    IF it.kind = "BitPadding" THEN WriteBits(bb, Zero64, it.n)
    ELSE IF it.kind = "BitFlags" THEN FlagsEncode(it.v, 1, bb)
    ELSE IF it.kind = "Bit" THEN WriteBits(bb, BoolBit(it.v), 1)
    ELSE WriteBits(bb, BitsWord(it), it.n)

\* bitFlags.decode from flag k on: the flags decoded before an error stay.
RECURSIVE FlagsDecode(_, _, _)
FlagsDecode(v, k, bb) ==
    IF k > Len(v) THEN [err |-> "nil", v |-> v, i |-> bb.i]
    ELSE LET next(r) ==
                 IF r.err # "nil" THEN [err |-> r.err, v |-> v, i |-> bb.i]
                 ELSE FlagsDecode([v EXCEPT ![k] = (r.v = FromInt(1))], k + 1,
                                  [b |-> bb.b, i |-> r.i])
         IN  next(ReadBits(bb, 1))

\* item.decode(b): the error, what the value location holds afterwards and
\* the bit index afterwards.
BitDecode(it, bb) ==
    IF it.kind = "BitFlags" THEN FlagsDecode(it.v, 1, bb)
    ELSE LET done(r) ==
                 IF r.err # "nil" \/ it.kind = "BitPadding"
                 THEN [err |-> r.err, v |-> it.v, i |-> r.i]
                 ELSE IF it.kind = "Bit"
                     THEN [err |-> "nil", v |-> (r.v = FromInt(1)), i |-> r.i]
                 ELSE [err |-> "nil", v |-> BitsNarrow(it.kind, r.v), i |-> r.i]
         IN  done(ReadBits(bb, IF it.kind = "Bit" THEN 1 ELSE it.n))

(***************************************************************************)
(* bitpacked                                                               *)
(***************************************************************************)
\* b.sizeBits() over the first k children, and b.Size()
RECURSIVE SizeBitsTo(_, _)
SizeBitsTo(items, k) ==
    IF k = 0 THEN 0 ELSE SizeBitsTo(items, k - 1) + BitSize(items[k])

SizeBits(items) == SizeBitsTo(items, Len(items))

BitpackedSize(items) == GoDiv(SizeBits(items) + 7, 8)

\* The loop of bitpacked.Encode from child k on.
RECURSIVE BitpackedEncodeLoop(_, _, _)
BitpackedEncodeLoop(items, k, bb) ==
    IF k > Len(items) THEN [ok |-> TRUE, b |-> bb.b, i |-> bb.i]
    ELSE LET next(w) ==
                 IF ~w.ok THEN w
                 ELSE BitpackedEncodeLoop(items, k + 1, [b |-> w.b, i |-> w.i])
         IN  next(BitEncode(items[k], bb))

\* bitpacked.Encode(buf): panics when a child overruns buf or when the
\* bits written are not sizeBits(); i is bitBuf.i at the return.
BitpackedEncode(items, buf) ==
    LET done(w, sizeBits) ==
            IF ~w.ok \/ w.i # sizeBits THEN Panicked
            ELSE [ok |-> TRUE, b |-> w.b, i |-> w.i]
    IN  done(BitpackedEncodeLoop(items, 1, [b |-> buf, i |-> 0]), SizeBits(items))

\* The loop of bitpacked.Decode from child k on.
RECURSIVE BitpackedDecodeLoop(_, _, _)
BitpackedDecodeLoop(items, k, bb) ==
    IF k > Len(items) THEN [err |-> "nil", items |-> items, i |-> bb.i]
    ELSE LET next(d, after) ==
                 IF d.err # "nil" THEN [err |-> d.err, items |-> after, i |-> d.i]
                 ELSE BitpackedDecodeLoop(after, k + 1, [b |-> bb.b, i |-> d.i])
             store(d) == next(d, [items EXCEPT ![k].v = d.v])
         IN  store(BitDecode(items[k], bb))

\* bitpacked.Decode(buf): the children hold what was decoded before an
\* error; read is the number of bytes the cursor has entered and i is
\* bitBuf.i at the return.
BitpackedDecode(items, buf) ==
    LET done(d, sizeBits) ==
            IF d.err # "nil"
            THEN [err |-> d.err, v |-> d.items, read |-> 0, i |-> d.i]
            ELSE IF d.i # sizeBits
                THEN [err |-> "ErrUnconsumed", v |-> d.items, read |-> 0, i |-> d.i]
            ELSE [err |-> "nil", v |-> d.items, read |-> GoDiv(d.i + 7, 8),
                  i |-> d.i]
    IN  done(BitpackedDecodeLoop(items, 1, [b |-> buf, i |-> 0]), SizeBits(items))

(***************************************************************************)
(* Items: the Item interface, by kind                                      *)
(***************************************************************************)
\* An item is [kind, v]: the descriptor and what its value location holds.
Item(kind, v) == [kind |-> kind, v |-> v]

\* Item.Size()
ItemSize(it) ==
    CASE it.kind = "Padding" -> PaddingSize(it.v)
      [] it.kind = "Byte" -> ByteSize(it.v)
      [] it.kind = "Bool" -> BoolSize(it.v)
      [] it.kind = "BigEndianUint16" -> BigEndianUint16Size(it.v)
      [] it.kind = "Uvarint32" -> Uvarint32Size(it.v)
      [] it.kind = "Uvarint64" -> Uvarint64Size(it.v)
      [] it.kind = "OrdUvarint64" -> OrdUvarint64Size(it.v)
      [] it.kind = "OrdVarint64" -> OrdVarint64Size(it.v)
      [] it.kind = "LengthDelimBytes" -> LengthDelimBytesSize(it.v)
      [] it.kind = "LengthDelimString" -> LengthDelimStringSize(it.v)
      [] it.kind = "Bitpacked" -> BitpackedSize(it.v)

\* Item.Encode(buf)
ItemEncode(it, buf) ==
    CASE it.kind = "Padding" -> PaddingEncode(it.v, buf)
      [] it.kind = "Byte" -> ByteEncode(it.v, buf)
      [] it.kind = "Bool" -> BoolEncode(it.v, buf)
      [] it.kind = "BigEndianUint16" -> BigEndianUint16Encode(it.v, buf)
      [] it.kind = "Uvarint32" -> Uvarint32Encode(it.v, buf)
      [] it.kind = "Uvarint64" -> Uvarint64Encode(it.v, buf)
      [] it.kind = "OrdUvarint64" -> OrdUvarint64Encode(it.v, buf)
      [] it.kind = "OrdVarint64" -> OrdVarint64Encode(it.v, buf)
      [] it.kind = "LengthDelimBytes" -> LengthDelimBytesEncode(it.v, buf)
      [] it.kind = "LengthDelimString" -> LengthDelimStringEncode(it.v, buf)
      [] it.kind = "Bitpacked" -> BitpackedEncode(it.v, buf)

\* Item.Decode(buf)
ItemDecodeValue(it, buf) ==
    CASE it.kind = "Padding" -> PaddingDecode(it.v, buf)
      [] it.kind = "Byte" -> ByteDecode(buf, it.v)
      [] it.kind = "Bool" -> BoolDecode(buf, it.v)
      [] it.kind = "BigEndianUint16" -> BigEndianUint16Decode(buf, it.v)
      [] it.kind = "Uvarint32" -> Uvarint32Decode(buf, it.v)
      [] it.kind = "Uvarint64" -> Uvarint64Decode(buf, it.v)
      [] it.kind = "OrdUvarint64" -> OrdUvarint64Decode(buf, it.v)
      [] it.kind = "OrdVarint64" -> OrdVarint64Decode(buf, it.v)
      [] it.kind = "LengthDelimString" -> LengthDelimStringDecode(buf, it.v)
      [] it.kind = "Bitpacked" -> BitpackedDecode(it.v, buf)

\* Item.Decode(buf) with the bytes of buf afterwards: only
\* lengthDelimBytes.Decode stores into buf.
ItemDecode(it, buf) ==
    IF it.kind = "LengthDelimBytes" THEN LengthDelimBytesDecode(buf, it.v)
    ELSE LET done(d) == [err |-> d.err, v |-> d.v, read |-> d.read, b |-> buf]
         IN  done(ItemDecodeValue(it, buf))

(***************************************************************************)
(* Encoding                                                                *)
(***************************************************************************)
\* buf[from:to] (Go indices) and buf with buf[from:from+len(s)] replaced by s.
Slice(buf, from, to) == SubSeq(buf, from + 1, to)

\* s stored at the start of buf whatever the offset: a faulty variant of
\* Splice.
SpliceAtStart(buf, from, s) == s \o SubSeq(buf, Len(s) + 1, Len(buf))

Splice(buf, from, s) ==
    SubSeq(buf, 1, from) \o s \o SubSeq(buf, from + Len(s) + 1, Len(buf))

RECURSIVE SumSizes(_, _)
SumSizes(items, n) ==
    IF n = 0 THEN 0 ELSE SumSizes(items, n - 1) + ItemSize(items[n])

\* The second loop of Encoding.Encode from item k on, the offset being i:
\* the buffer returned and the range [from, to) handed to each item, or a
\* panic.
RECURSIVE EncodeLoop(_, _, _, _, _)
EncodeLoop(items, k, i, buf, ranges) ==
    IF k > Len(items) THEN [ok |-> TRUE, b |-> buf, ranges |-> ranges]
    ELSE LET panic == [ok |-> FALSE, b |-> <<>>, ranges |-> ranges]
             next(size, w) ==
                 IF ~w.ok THEN panic
                 ELSE EncodeLoop(items, k + 1, i + size, Splice(buf, i, w.b),
                                 Append(ranges, <<i, i + size>>))
             encode(size) ==
                 IF size < 0 \/ i + size > Len(buf) THEN panic
                 ELSE next(size, ItemEncode(items[k], Slice(buf, i, i + size)))
         IN  encode(ItemSize(items[k]))

EncodingEncode(items) ==
    LET alloc(totalSize) ==
            IF totalSize < 0 THEN [ok |-> FALSE, b |-> <<>>, ranges |-> <<>>]
            ELSE EncodeLoop(items, 1, 0, ZeroBytes(totalSize), <<>>)
    IN  alloc(SumSizes(items, Len(items)))

\* A loop that goes on to the items after the one that failed and returns
\* the first error at the end: a faulty variant of DecodeLoop.
RECURSIVE DecodeLoopKeepGoing(_, _, _, _)
DecodeLoopKeepGoing(items, k, i, buf) ==
    IF k > Len(items)
    THEN [ok |-> TRUE, err |-> "nil", items |-> items, reads |-> <<>>,
          offs |-> <<>>, b |-> buf]
    ELSE IF i > Len(buf)
        THEN [ok |-> FALSE, err |-> "panic", items |-> items, reads |-> <<>>,
              offs |-> <<>>, b |-> buf]
    ELSE LET first(d, rest) ==
                 IF d.err # "nil"
                 THEN [rest EXCEPT !.err = d.err, !.reads = <<>>, !.offs = <<i>>]
                 ELSE [rest EXCEPT !.reads = <<d.read>> \o @, !.offs = <<i>> \o @]
             next(d, after, bufAfter) ==
                 first(d, DecodeLoopKeepGoing(after, k + 1, i + ItemSize(after[k]),
                                              bufAfter))
             store(d) == next(d, [items EXCEPT ![k].v = d.v], Splice(buf, i, d.b))
         IN  store(ItemDecode(items[k], Slice(buf, i, Len(buf))))

\* Encoding.Decode from item k on, the offset being i: the error returned,
\* the items with what their value locations hold afterwards, the bytes
\* each item that returned nil has used, the offset i at each call of an
\* item's Decode, and the bytes of buf afterwards.  buf[i:] with
\* i > len(buf) panics.
RECURSIVE DecodeLoop(_, _, _, _)
DecodeLoop(items, k, i, buf) ==
    IF k > Len(items)
    THEN [ok |-> TRUE, err |-> "nil", items |-> items, reads |-> <<>>,
          offs |-> <<>>, b |-> buf]
    ELSE IF i > Len(buf)
        THEN [ok |-> FALSE, err |-> "panic", items |-> items, reads |-> <<>>,
              offs |-> <<>>, b |-> buf]
    ELSE LET prepend(read, rest) ==
                 [rest EXCEPT !.reads = <<read>> \o @, !.offs = <<i>> \o @]
             next(d, after, bufAfter) ==
                 IF d.err # "nil"
                 THEN [ok |-> TRUE, err |-> d.err, items |-> after, reads |-> <<>>,
                       offs |-> <<i>>, b |-> bufAfter]
                 ELSE prepend(d.read,
                              DecodeLoop(after, k + 1, i + ItemSize(after[k]),
                                         bufAfter))
             store(d) == next(d, [items EXCEPT ![k].v = d.v], Splice(buf, i, d.b))
         IN  store(ItemDecode(items[k], Slice(buf, i, Len(buf))))

EncodingDecode(items, buf) == DecodeLoop(items, 1, 0, buf)

(***************************************************************************)
(* Tuple                                                                   *)
(***************************************************************************)
\* item.SizeTuple(last), item.EncodeTuple(buf, last) and
\* item.DecodeTuple(buf, last); bitpacked, the TupleItem there is, passes
\* them on to Size, Encode and Decode.
SizeTuple(it, last) == ItemSize(it)

EncodeTuple(it, buf, last) == ItemEncode(it, buf)

DecodeTuple(it, buf, last) == ItemDecode(it, buf)

\* A call the Tuple makes to an item: the method, the index i of the item
\* and the last flag passed.
Call(method, i, last) == [method |-> method, i |-> i, last |-> last]

\* The first loop of Tuple.EncodePrefix: the size of items 1..n, and the
\* calls made.
RECURSIVE PrefixSize(_, _)
PrefixSize(items, n) ==
    IF n = 0 THEN [size |-> 0, calls |-> <<>>]
    ELSE LET add(p, last) ==
                 [size |-> p.size + SizeTuple(items[n], last),
                  calls |-> Append(p.calls, Call("SizeTuple", n - 1, last))]
         IN  add(PrefixSize(items, n - 1), n = Len(items))

\* The second loop of Tuple.EncodePrefix from item k on (k = i + 1), the
\* offset being j.
RECURSIVE PrefixLoop(_, _, _, _, _, _)
PrefixLoop(items, n, k, j, buf, calls) ==
    IF k > n THEN [ok |-> TRUE, b |-> buf, calls |-> calls]
    ELSE LET panic == [ok |-> FALSE, b |-> <<>>, calls |-> calls]
             next(size, w) ==
                 IF ~w.ok THEN panic
                 ELSE PrefixLoop(items, n, k + 1, j + size, Splice(buf, j, w.b),
                                 calls \o <<Call("SizeTuple", k - 1, k = n),
                                            Call("EncodeTuple", k - 1, k = n)>>)
             encode(size) ==
                 IF size < 0 \/ j + size > Len(buf) THEN panic
                 ELSE next(size, EncodeTuple(items[k], Slice(buf, j, j + size), k = n))
         IN  encode(SizeTuple(items[k], k = n))

\* t.EncodePrefix(n): t.items[i] with i >= len(t.items) panics.
TupleEncodePrefix(items, n) ==
    IF n > Len(items) THEN [ok |-> FALSE, b |-> <<>>, calls |-> <<>>]
    ELSE LET alloc(p) ==
                 IF p.size < 0 THEN [ok |-> FALSE, b |-> <<>>, calls |-> p.calls]
                 ELSE PrefixLoop(items, n, 1, 0, ZeroBytes(p.size), p.calls)
         IN  alloc(PrefixSize(items, n))

\* t.DecodePrefix(buf, n) from item k on, the offset being j.
RECURSIVE TupleDecodeLoop(_, _, _, _, _, _)
TupleDecodeLoop(items, n, k, j, buf, calls) ==
    IF k > n THEN [ok |-> TRUE, err |-> "nil", items |-> items, calls |-> calls]
    ELSE IF k > Len(items) \/ j > Len(buf)
        THEN [ok |-> FALSE, err |-> "panic", items |-> items, calls |-> calls]
    ELSE LET called == Append(calls, Call("DecodeTuple", k - 1, k = n))
             next(d, after) ==
                 IF d.err # "nil"
                 THEN [ok |-> TRUE, err |-> d.err, items |-> after, calls |-> called]
                 ELSE TupleDecodeLoop(after, n, k + 1, j + ItemSize(after[k]), buf,
                                      called)
             store(d) == next(d, [items EXCEPT ![k].v = d.v])
         IN  store(DecodeTuple(items[k], Slice(buf, j, Len(buf)), k = n))

TupleDecodePrefix(items, buf, n) == TupleDecodeLoop(items, n, 1, 0, buf, <<>>)

(***************************************************************************)
(* The state                                                               *)
(***************************************************************************)
VARIABLES
    \* Two order-preserving varints encoded and decoded side by side (the
    \* checkOrdering / checkRoundtrip harness of TestOrdUvarint64).
    okind,      \* "OrdUvarint64" or "OrdVarint64"
    opc,        \* "idle", "start", "encoded", "decoded", "panicked"
    oorig,      \* <<x, x2>>: the values at the time of Encode
    ox,         \* <<x, x2>>: what the value locations hold now
    osize,      \* <<Size(), Size()>> at the time of Encode
    ob,         \* <<b, b2>>: the buffers Encode returned
    otail,      \* the bytes that follow each encoding in the buffer decoded
    oin,        \* the two buffers handed to Decode
    ores,       \* the two results of Decode: [err, reads]
    \* A bitBuffer written and then read back (TestBitbufferBasic).
    bpc,        \* "idle", "writing", "reading", "failed", "panicked"
    bbuf,       \* w.b
    bi,         \* w.i
    blog,       \* the <<x, n>> of the writeBits calls that returned
    bri,        \* r.i of the reading cursor
    bres,       \* what the readBits calls returned
    blast,      \* the last call: the method, n, the bytes and the cursor
                \* before it, and how it ended
    \* One Bitpacked item encoded and decoded.
    ppc,        \* "idle", "start", "encoded", "decoded", "panicked"
    porig,      \* the children as constructed
    pitems,     \* the children, with what their value locations hold now
    pbuf,       \* the slice encoded into
    perr,       \* the error Decode returned
    pcur,       \* bitBuf.i when the last Encode or Decode returned
    \* Two Tuples of the same shape encoded side by side.
    tpc,        \* "idle", "start", "encoded", "decoded", "panicked"
    torig,      \* <<items of tuple 1, items of tuple 2>> as constructed
    titems,     \* the same, with what the value locations hold now
    tn,         \* the n of EncodePrefix(n)
    tb,         \* <<b, b2>>: the buffers EncodePrefix returned
    terr,       \* the errors DecodePrefix returned
    tcalls,     \* the calls each Tuple made to its items in the last operation
    \* An Encoding encoded and decoded.
    epc,        \* "start", "encoded", "decoded", "panicked"
    eorig,      \* the items as constructed
    eitems,     \* the items, with what their value locations hold now
    ebuf,       \* the buffer Encode returned
    eranges,    \* the range of the buffer Encode handed to each item
    eerr,       \* the error Decode returned
    \* An Encoding decoding a buffer it is handed.
    dpc,        \* "idle", "start", "decoded", "panicked"
    dorig,      \* the items, with what their value locations held before
    ditems,     \* the items, with what their value locations hold now
    dbuf,       \* the buffer handed to Decode
    dafter,     \* the bytes of that buffer now
    derr,       \* the error Decode returned
    dreads,     \* the bytes used by each item that returned nil
    doffs,      \* the offset at each call of an item's Decode
    \* One backing array encoded into again and again
    \* (BenchmarkOrdUvarint64Encode).
    rpc,        \* "idle", "start", "encoded", "panicked"
    rback,      \* the backing array
    rn,         \* the number of Encode calls made
    ritem,      \* the item of the last Encode call
    rprior,     \* backing[:Size()] before that call
    rout,       \* backing[:Size()] after it
    rclean      \* what that call leaves in a zeroed slice of Size() bytes

ordVars == <<okind, opc, oorig, ox, osize, ob, otail, oin, ores>>

bitVars == <<bpc, bbuf, bi, blog, bri, bres, blast>>

packVars == <<ppc, porig, pitems, pbuf, perr, pcur>>

tupVars == <<tpc, torig, titems, tn, tb, terr, tcalls>>

encVars == <<epc, eorig, eitems, ebuf, eranges, eerr>>

decVars == <<dpc, dorig, ditems, dbuf, dafter, derr, dreads, doffs>>

reuseVars == <<rpc, rback, rn, ritem, rprior, rout, rclean>>

vars == <<ordVars, bitVars, packVars, tupVars, encVars, decVars, reuseVars>>

\* A harness that a specification does not run stays idle.
OrdIdle ==
    /\ okind = "OrdUvarint64" /\ opc = "idle"
    /\ oorig = <<>> /\ ox = <<>> /\ osize = <<>> /\ ob = <<>>
    /\ otail = <<>> /\ oin = <<>> /\ ores = <<>>

BitIdle ==
    /\ bpc = "idle" /\ bbuf = <<>> /\ bi = 0
    /\ blog = <<>> /\ bri = 0 /\ bres = <<>> /\ blast = <<>>

PackIdle ==
    /\ ppc = "idle" /\ porig = <<>> /\ pitems = <<>>
    /\ pbuf = <<>> /\ perr = "nil" /\ pcur = 0

TupIdle ==
    /\ tpc = "idle" /\ torig = <<>> /\ titems = <<>>
    /\ tn = 0 /\ tb = <<>> /\ terr = <<>> /\ tcalls = <<>>

EncIdle ==
    /\ epc = "idle" /\ eorig = <<>> /\ eitems = <<>>
    /\ ebuf = <<>> /\ eranges = <<>> /\ eerr = "nil"

DecIdle ==
    /\ dpc = "idle" /\ dorig = <<>> /\ ditems = <<>> /\ dbuf = <<>>
    /\ dafter = <<>> /\ derr = "nil" /\ dreads = <<>> /\ doffs = <<>>

ReuseIdle ==
    /\ rpc = "idle" /\ rback = <<>> /\ rn = 0 /\ ritem = <<>>
    /\ rprior = <<>> /\ rout = <<>> /\ rclean = <<>>

(***************************************************************************)
(* Bounds and inputs                                                       *)
(***************************************************************************)
\* Values are taken within Delta of every band boundary.
Delta == 2

RECURSIVE AddN(_, _)
AddN(x, d) ==
    IF d = 0 THEN x
    ELSE IF d > 0 THEN AddN(Inc64(x), d - 1)
    ELSE AddN(Dec64(x), d + 1)

\* 1010...10 in the low k bits.
AltW(k) == And64(<<170, 170, 170, 170, 170, 170, 170, 170>>, Pow2Minus1W(k))

\* Around 2^7, 2^14, ..., 2^56, 2^63, and around 2^64 = 0 (0 - 1 is the
\* largest uint64); and one value inside every band.
UBoundaries == {7, 14, 21, 28, 35, 42, 49, 56, 63, 64}

USamples ==
    {AddN(Pow2W(k), d) : k \in UBoundaries, d \in (-Delta)..Delta}
        \cup {AltW(k) : k \in UBoundaries}

\* Around +-2^6, ..., +-2^55, around 0, and around 2^63 (the least int64;
\* one less is the largest); and one value inside every band.
SBoundaries == {6, 13, 20, 27, 34, 41, 48, 55}

SSamples ==
    {AddN(Pow2W(k), d) : k \in SBoundaries \cup {63, 64}, d \in (-Delta)..Delta}
        \cup {AddN(NegPow2W(k), d) : k \in SBoundaries, d \in (-Delta)..Delta}
        \cup {AltW(k + 5) : k \in SBoundaries}
        \cup {Not64(AltW(k + 5)) : k \in SBoundaries}

\* The bytes that may follow an encoding in the buffer handed to Decode.
Tails == {<<>>, <<255, 0>>}

OrdLt(kind, a, b) == IF kind = "OrdUvarint64" THEN ULt(a, b) ELSE SLt(a, b)

\* 0x0123456789ABCDEF
Pattern64 == <<1, 35, 69, 103, 137, 171, 205, 239>>

\* The bit buffer: at most MaxWrites calls of writeBits, of these widths and
\* values, into a zeroed buffer of one of these lengths.
MaxWrites == 3

BitWidths == {1, 7, 8, 12, 58, 64}

BitValues == {Not64(Zero64), Pattern64}

BufLens == {2, 9}

\* Bitpacked: at most MaxChildren children, each one of these.
MaxChildren == 2

ChildPool ==
    << BitChild("Bits8", 3, 181),
       BitChild("Bits8", 8, 181),
       BitChild("Bits16", 12, 62883),
       BitChild("Bits32", 20, <<0, 0, 0, 0, 154, 188, 222, 241>>),
       BitChild("Bits64", 33, Pattern64),
       BitChild("Bits64", 57, Not64(Zero64)),
       BitChild("Bits64", 64, Inc64(Shl(Pattern64, 7))),
       BitChild("Bit", 0, TRUE),
       BitChild("BitFlags", 0, <<TRUE, FALSE, TRUE>>),
       BitChild("BitPadding", 5, 0) >>

\* The zero value of a child's value location.
ZeroChild(it) ==
    BitChild(it.kind, it.n,
             IF it.kind = "Bit" THEN FALSE
             ELSE IF it.kind = "BitFlags" THEN [k \in 1..Len(it.v) |-> FALSE]
             ELSE IF it.kind \in {"Bits32", "Bits64"} THEN Zero64
             ELSE 0)

ZeroChildren(items) == [k \in 1..Len(items) |-> ZeroChild(items[k])]

\* Tuples: the shapes (a Bitpacked item per entry, <<kind, n>> per child)
\* and the values a child of each kind may hold.
TupleShapes ==
    << << << <<"Bits8", 3>>, <<"Bits16", 12>> >> >>,
       << << <<"Bits8", 5>> >>, << <<"Bit", 0>>, <<"Bits32", 20>> >> >>,
       << << <<"Bit", 0>>, <<"Bits64", 64>> >>, << <<"Bits8", 8>> >> >>,
       << << <<"Bits16", 9>> >>, << <<"BitPadding", 3>>, <<"Bits8", 4>> >>,
          << <<"Bits64", 57>> >> >> >>

ChildValues(kind) ==
    IF kind = "Bits8" THEN <<8, 1, 254>>
    ELSE IF kind = "Bits16" THEN <<32768, 1, 61442>>
    ELSE IF kind = "Bits32" THEN << <<0, 0, 0, 0, 128, 0, 0, 0>>, FromInt(1),
                                    <<0, 0, 0, 0, 255, 240, 0, 2>> >>
    ELSE IF kind = "Bits64" THEN <<Zero64, FromInt(1), <<128, 0, 0, 0, 0, 0, 0, 2>> >>
    ELSE IF kind = "Bit" THEN <<FALSE, TRUE>>
    ELSE <<0>>

\* The number of children of a shape before item i, and in all.
RECURSIVE ChildrenBefore(_, _)
ChildrenBefore(shape, i) ==
    IF i <= 1 THEN 0 ELSE ChildrenBefore(shape, i - 1) + Len(shape[i - 1])

\* The items of a Tuple of this shape, child number c holding the value
\* numbered f[c] of its kind.
TupleOf(shape, f) ==
    [i \in 1..Len(shape) |->
        Item("Bitpacked",
             [j \in 1..Len(shape[i]) |->
                 LET kind == shape[i][j][1]
                     vals == ChildValues(kind)
                 IN  BitChild(kind, shape[i][j][2],
                              vals[MinInt(f[ChildrenBefore(shape, i) + j],
                                          Len(vals))])])]

\* Encodings: at most MaxItems items, each one of these.
MaxItems == 2

ItemPool ==
    << Item("Padding", 2),
       Item("Byte", 167),
       Item("Bool", TRUE),
       Item("Bool", FALSE),
       Item("BigEndianUint16", 4660),
       Item("Uvarint64", FromInt(300)),
       Item("Uvarint64", Not64(Zero64)),
       Item("OrdUvarint64", Pow2W(14)),
       Item("OrdVarint64", Dec64(NegPow2W(6))),
       Item("LengthDelimBytes", <<>>),
       Item("LengthDelimBytes", <<7, 9>>),
       Item("LengthDelimString", <<>>),
       Item("LengthDelimString", <<104, 105>>),
       Item("Bitpacked", <<BitChild("Bits8", 3, 5), BitChild("Bits16", 12, 2748)>>) >>

\* The zero value of an item's value location.
ZeroItem(it) ==
    Item(it.kind,
         IF it.kind = "Padding" THEN it.v
         ELSE IF it.kind = "Bool" THEN FALSE
         ELSE IF it.kind \in {"Byte", "BigEndianUint16"} THEN 0
         ELSE IF it.kind \in {"LengthDelimBytes", "LengthDelimString"} THEN <<>>
         ELSE IF it.kind = "Bitpacked" THEN ZeroChildren(it.v)
         ELSE Zero64)

ZeroItems(items) == [k \in 1..Len(items) |-> ZeroItem(items[k])]

\* Decoding: at most MaxDecItems items, each one of these with the value
\* its location holds before the call, and one of these buffers; and every
\* first byte before each of these tails, handed to one item.
MaxDecItems == 2

DecItemPool ==
    << Item("BigEndianUint16", 48879),
       Item("Bool", TRUE),
       Item("Byte", 90),
       Item("Uvarint32", <<0, 0, 0, 0, 222, 173, 190, 239>>),
       Item("Uvarint64", Pattern64),
       Item("OrdUvarint64", Pattern64),
       Item("OrdVarint64", Pattern64),
       Item("LengthDelimBytes", <<5>>),
       Item("LengthDelimString", <<5>>) >>

DecBufs ==
    { <<>>,
      <<18, 52, 2>>,
      <<18, 52, 1>>,
      <<128, 128, 128, 128, 16>>,
      <<255, 255, 255, 255, 15, 1>>,
      <<2, 7, 9, 1>>,
      <<2, 7, 9, 1, 0>>,
      <<0, 1>>,
      <<128, 0, 1>>,
      <<192, 0, 1>>,
      <<172, 2, 1>>,
      <<255, 255, 255, 255, 255, 255, 255, 255, 255, 1, 0>> }

SweepTails == {<<>>, <<128, 0, 0, 0, 0, 0, 0, 1>>, <<1, 2, 3, 4, 5, 6, 7, 8>>}

(***************************************************************************)
(* The ordered-varint harness                                              *)
(***************************************************************************)
OrdStart ==
    /\ okind \in {"OrdUvarint64", "OrdVarint64"}
    /\ opc = "start"
    /\ \E a, b \in (IF okind = "OrdUvarint64" THEN USamples ELSE SSamples) :
          /\ OrdLt(okind, a, b)
          /\ oorig = <<a, b>>
          /\ ox = <<a, b>>
    /\ osize = <<0, 0>>
    /\ ob = <<<<>>, <<>>>>
    /\ otail = <<>>
    /\ oin = <<>>
    /\ ores = <<>>

OrdInit == OrdStart /\ BitIdle /\ PackIdle /\ TupIdle /\ EncIdle /\ DecIdle
    /\ ReuseIdle

\* b := New(item(&x)).Encode(), for x and for x2.
OrdEncode ==
    /\ opc = "start"
    /\ \E e1 \in {EncodingEncode(<<Item(okind, ox[1])>>)},
          e2 \in {EncodingEncode(<<Item(okind, ox[2])>>)} :
          IF e1.ok /\ e2.ok
          THEN /\ opc' = "encoded"
               /\ ob' = <<e1.b, e2.b>>
               /\ osize' = <<ItemSize(Item(okind, ox[1])),
                             ItemSize(Item(okind, ox[2]))>>
          ELSE /\ opc' = "panicked"
               /\ UNCHANGED <<ob, osize>>
    /\ UNCHANGED <<okind, oorig, ox, otail, oin, ores>>
    /\ UNCHANGED <<bitVars, packVars, tupVars, encVars, decVars, reuseVars>>

\* x = ^x; err := New(item(&x)).Decode(b), for x and for x2; the buffer may
\* hold more bytes than the encoding.
OrdDecode ==
    /\ opc = "encoded"
    /\ \E t \in Tails :
          \E d1 \in {EncodingDecode(<<Item(okind, Not64(ox[1]))>>, ob[1] \o t)},
             d2 \in {EncodingDecode(<<Item(okind, Not64(ox[2]))>>, ob[2] \o t)} :
              /\ otail' = t
              /\ oin' = <<ob[1] \o t, ob[2] \o t>>
              /\ ox' = <<d1.items[1].v, d2.items[1].v>>
              /\ ores' = <<[err |-> d1.err, reads |-> d1.reads],
                           [err |-> d2.err, reads |-> d2.reads]>>
    /\ opc' = "decoded"
    /\ UNCHANGED <<okind, oorig, osize, ob>>
    /\ UNCHANGED <<bitVars, packVars, tupVars, encVars, decVars, reuseVars>>

OrdNext == OrdEncode \/ OrdDecode

SpecOrd == OrdInit /\ [][OrdNext]_vars

\* The first n bytes of b, none when n < 0.
Prefix(b, n) == SubSeq(b, 1, IF n < 0 THEN 0 ELSE n)

\* x = ^x; err := New(item(&x)).Decode(p), for x and for x2, p being the
\* encoding less its last d bytes (the empty buffer when it has fewer).
OrdDecodeTruncated ==
    /\ opc = "encoded"
    /\ \E d \in 1..MinInt(9, IF Len(ob[1]) > Len(ob[2]) THEN Len(ob[1]) ELSE Len(ob[2])) :
          \E p1 \in {Prefix(ob[1], Len(ob[1]) - d)},
             p2 \in {Prefix(ob[2], Len(ob[2]) - d)} :
              \E d1 \in {EncodingDecode(<<Item(okind, Not64(ox[1]))>>, p1)},
                 d2 \in {EncodingDecode(<<Item(okind, Not64(ox[2]))>>, p2)} :
                  /\ oin' = <<p1, p2>>
                  /\ ox' = <<d1.items[1].v, d2.items[1].v>>
                  /\ ores' = <<[err |-> d1.err, reads |-> d1.reads],
                               [err |-> d2.err, reads |-> d2.reads]>>
    /\ opc' = "truncated"
    /\ UNCHANGED <<okind, oorig, osize, ob, otail>>
    /\ UNCHANGED <<bitVars, packVars, tupVars, encVars, decVars, reuseVars>>

OrdTruncatedNext == OrdEncode \/ OrdDecodeTruncated

SpecOrdTruncated == OrdInit /\ [][OrdTruncatedNext]_vars

(***************************************************************************)
(* The bit-buffer harness                                                  *)
(***************************************************************************)
\* A call of writeBits or readBits: the method, n, b.b and b.i before the
\* call, and "returned" or "panic" for writeBits, the error for readBits.
LastCall(method, n, b, i, end) ==
    [method |-> method, n |-> n, b |-> b, i |-> i, end |-> end]

BitStart ==
    /\ bpc = "writing"
    /\ bbuf \in {ZeroBytes(n) : n \in BufLens}
    /\ bi = 0
    /\ blog = <<>>
    /\ bri = 0
    /\ bres = <<>>
    /\ blast = <<>>

BitInit == BitStart /\ OrdIdle /\ PackIdle /\ TupIdle /\ EncIdle /\ DecIdle
    /\ ReuseIdle

\* w.writeBits(x, n)
BitWrite ==
    /\ bpc = "writing"
    /\ Len(blog) < MaxWrites
    /\ \E x \in BitValues, n \in BitWidths :
          \E w \in {WriteBits([b |-> bbuf, i |-> bi], x, n)} :
              /\ bbuf' = w.b
              /\ bi' = w.i
              /\ blast' = <<LastCall("writeBits", n, bbuf, bi,
                                     IF w.ok THEN "returned" ELSE "panic")>>
              /\ IF w.ok
                 THEN blog' = Append(blog, <<x, n>>) /\ bpc' = bpc
                 ELSE blog' = blog /\ bpc' = "panicked"
    /\ UNCHANGED <<bri, bres>>
    /\ UNCHANGED <<ordVars, packVars, tupVars, encVars, decVars, reuseVars>>

\* r := bitBuffer{b: w.b, i: 0}
BitNewReader ==
    /\ bpc = "writing"
    /\ blog # <<>>
    /\ bpc' = "reading"
    /\ bri' = 0
    /\ UNCHANGED <<bbuf, bi, blog, bres, blast>>
    /\ UNCHANGED <<ordVars, packVars, tupVars, encVars, decVars, reuseVars>>

\* r.readBits(n), n being the width of the next write in order.
BitRead ==
    /\ bpc = "reading"
    /\ Len(bres) < Len(blog)
    /\ \E n \in {blog[Len(bres) + 1][2]} :
          \E r \in {ReadBits([b |-> bbuf, i |-> bri], n)} :
              /\ bri' = r.i
              /\ blast' = <<LastCall("readBits", n, bbuf, bri, r.err)>>
              /\ IF r.err = "nil"
                 THEN bres' = Append(bres, r.v) /\ bpc' = bpc
                 ELSE bres' = bres /\ bpc' = "failed"
    /\ UNCHANGED <<bbuf, bi, blog>>
    /\ UNCHANGED <<ordVars, packVars, tupVars, encVars, decVars, reuseVars>>

BitNext == BitWrite \/ BitNewReader \/ BitRead

SpecBits == BitInit /\ [][BitNext]_vars

\* r.readBits(n) once more, after the fields written have been read.
BitReadPast ==
    /\ bpc = "reading"
    /\ Len(bres) = Len(blog)
    /\ \E n \in BitWidths :
          \E r \in {ReadBits([b |-> bbuf, i |-> bri], n)} :
              /\ bri' = r.i
              /\ blast' = <<LastCall("readBits", n, bbuf, bri, r.err)>>
              /\ bpc' = IF r.err = "nil" THEN "past" ELSE "failed"
    /\ UNCHANGED <<bbuf, bi, blog, bres>>
    /\ UNCHANGED <<ordVars, packVars, tupVars, encVars, decVars, reuseVars>>

BitOverrunNext == BitWrite \/ BitNewReader \/ BitRead \/ BitReadPast

SpecBitsOverrun == BitInit /\ [][BitOverrunNext]_vars

(***************************************************************************)
(* The Bitpacked harness                                                   *)
(***************************************************************************)
PackStart ==
    /\ ppc = "start"
    /\ \E n \in 0..MaxChildren :
          \E f \in [1..n -> 1..Len(ChildPool)] :
              /\ porig = [k \in 1..n |-> ChildPool[f[k]]]
              /\ pitems = [k \in 1..n |-> ChildPool[f[k]]]
    /\ pbuf = <<>>
    /\ perr = "nil"
    /\ pcur = 0

PackInit == PackStart /\ OrdIdle /\ BitIdle /\ TupIdle /\ EncIdle /\ DecIdle
    /\ ReuseIdle

\* b := make([]byte, Size()); Bitpacked(children...).Encode(b)
PackEncode ==
    /\ ppc = "start"
    /\ \E w \in {BitpackedEncode(pitems, ZeroBytes(BitpackedSize(pitems)))} :
          IF w.ok
          THEN ppc' = "encoded" /\ pbuf' = w.b /\ pcur' = w.i
          ELSE ppc' = "panicked" /\ pbuf' = pbuf /\ pcur' = pcur
    /\ UNCHANGED <<porig, pitems, perr>>
    /\ UNCHANGED <<ordVars, bitVars, tupVars, encVars, decVars, reuseVars>>

\* Bitpacked(children...).Decode(b), the value locations being zero before.
PackDecode ==
    /\ ppc = "encoded"
    /\ \E d \in {BitpackedDecode(ZeroChildren(pitems), pbuf)} :
          /\ pitems' = d.v
          /\ perr' = d.err
          /\ pcur' = d.i
    /\ ppc' = "decoded"
    /\ UNCHANGED <<porig, pbuf>>
    /\ UNCHANGED <<ordVars, bitVars, tupVars, encVars, decVars, reuseVars>>

PackNext == PackEncode \/ PackDecode

SpecPack == PackInit /\ [][PackNext]_vars

(***************************************************************************)
(* The Tuple harness                                                       *)
(***************************************************************************)
TupStart ==
    /\ tpc = "start"
    /\ \E s \in 1..Len(TupleShapes) :
          LET shape == TupleShapes[s]
              c == ChildrenBefore(shape, Len(shape) + 1)
          IN  \E f, g \in [1..c -> 1..3] :
                  /\ torig = <<TupleOf(shape, f), TupleOf(shape, g)>>
                  /\ titems = <<TupleOf(shape, f), TupleOf(shape, g)>>
    /\ tn = 0
    /\ tb = <<>>
    /\ terr = <<>>
    /\ tcalls = <<>>

TupInit == TupStart /\ OrdIdle /\ BitIdle /\ PackIdle /\ EncIdle /\ DecIdle
    /\ ReuseIdle

\* b := t.EncodePrefix(n); b2 := t2.EncodePrefix(n)
TupEncodePrefix ==
    /\ tpc = "start"
    /\ \E n \in 0..(Len(titems[1]) + 1) :
          \E w1 \in {TupleEncodePrefix(titems[1], n)},
             w2 \in {TupleEncodePrefix(titems[2], n)} :
              /\ tn' = n
              /\ tcalls' = <<w1.calls, w2.calls>>
              /\ IF w1.ok /\ w2.ok
                 THEN tpc' = "encoded" /\ tb' = <<w1.b, w2.b>>
                 ELSE tpc' = "panicked" /\ tb' = tb
    /\ UNCHANGED <<torig, titems, terr>>
    /\ UNCHANGED <<ordVars, bitVars, packVars, encVars, decVars, reuseVars>>

\* err := t.DecodePrefix(b, n); err2 := t2.DecodePrefix(b2, n), the value
\* locations being zero before.
TupDecodePrefix ==
    /\ tpc = "encoded"
    /\ \E d1 \in {TupleDecodePrefix(ZeroItems(titems[1]), tb[1], tn)},
          d2 \in {TupleDecodePrefix(ZeroItems(titems[2]), tb[2], tn)} :
          /\ titems' = <<d1.items, d2.items>>
          /\ terr' = <<d1.err, d2.err>>
          /\ tcalls' = <<d1.calls, d2.calls>>
    /\ tpc' = "decoded"
    /\ UNCHANGED <<torig, tn, tb>>
    /\ UNCHANGED <<ordVars, bitVars, packVars, encVars, decVars, reuseVars>>

TupNext == TupEncodePrefix \/ TupDecodePrefix

SpecTuple == TupInit /\ [][TupNext]_vars

(***************************************************************************)
(* The Encoding harness                                                    *)
(***************************************************************************)
EncStart ==
    /\ epc = "start"
    /\ \E n \in 0..MaxItems :
          \E f \in [1..n -> 1..Len(ItemPool)] :
              /\ eorig = [k \in 1..n |-> ItemPool[f[k]]]
              /\ eitems = [k \in 1..n |-> ItemPool[f[k]]]
    /\ ebuf = <<>>
    /\ eranges = <<>>
    /\ eerr = "nil"

Init == EncStart /\ OrdIdle /\ BitIdle /\ PackIdle /\ TupIdle /\ DecIdle
    /\ ReuseIdle

\* b := New(items...).Encode()
EncEncode ==
    /\ epc = "start"
    /\ \E e \in {EncodingEncode(eitems)} :
          IF e.ok
          THEN epc' = "encoded" /\ ebuf' = e.b /\ eranges' = e.ranges
          ELSE epc' = "panicked" /\ ebuf' = ebuf /\ eranges' = eranges
    /\ UNCHANGED <<eorig, eitems, eerr>>
    /\ UNCHANGED <<ordVars, bitVars, packVars, tupVars, decVars, reuseVars>>

\* err := New(items...).Decode(b), the value locations being zero before.
EncDecode ==
    /\ epc = "encoded"
    /\ \E d \in {EncodingDecode(ZeroItems(eitems), ebuf)} :
          /\ eitems' = d.items
          /\ ebuf' = d.b
          /\ eerr' = d.err
          /\ epc' = IF d.ok THEN "decoded" ELSE "panicked"
    /\ UNCHANGED <<eorig, eranges>>
    /\ UNCHANGED <<ordVars, bitVars, packVars, tupVars, decVars, reuseVars>>

Next == EncEncode \/ EncDecode

Spec == Init /\ [][Next]_vars

(***************************************************************************)
(* The decoding harness                                                    *)
(***************************************************************************)
DecStart ==
    /\ dpc = "start"
    /\ \/ \E n \in 1..MaxDecItems :
              \E f \in [1..n -> 1..Len(DecItemPool)] :
                  /\ dorig = [k \in 1..n |-> DecItemPool[f[k]]]
                  /\ dbuf \in DecBufs
       \/ \E c \in 1..Len(DecItemPool) :
              /\ dorig = <<DecItemPool[c]>>
              /\ dbuf \in {<<b>> \o t : b \in 0..255, t \in SweepTails}
       \/ \E v \in SSamples :
              /\ dorig = <<Item("OrdVarint64", v)>>
              /\ dbuf \in {<<>>, <<127>>}
    /\ ditems = dorig
    /\ dafter = dbuf
    /\ derr = "nil"
    /\ dreads = <<>>
    /\ doffs = <<>>

DecInit == DecStart /\ OrdIdle /\ BitIdle /\ PackIdle /\ TupIdle /\ EncIdle
    /\ ReuseIdle

\* err := New(items...).Decode(buf)
DecDecode ==
    /\ dpc = "start"
    /\ \E d \in {EncodingDecode(ditems, dbuf)} :
          /\ ditems' = d.items
          /\ dafter' = d.b
          /\ derr' = d.err
          /\ dreads' = d.reads
          /\ doffs' = d.offs
          /\ dpc' = IF d.ok THEN "decoded" ELSE "panicked"
    /\ UNCHANGED <<dorig, dbuf>>
    /\ UNCHANGED <<ordVars, bitVars, packVars, tupVars, encVars, reuseVars>>

DecNext == DecDecode

SpecDecode == DecInit /\ [][DecNext]_vars

(***************************************************************************)
(* The buffer reuse harness                                                *)
(***************************************************************************)
\* var backing [9]byte
BackingLen == 9

\* At most MaxReuse calls of Encode share the backing array.
MaxReuse == 2

\* The items encoded into the backing array.
ReusePool ==
    ItemPool \o
    << Item("Byte", 0),
       Item("OrdUvarint64", Zero64),
       Item("OrdUvarint64", Not64(Zero64)),
       Item("OrdVarint64", Zero64),
       Item("Uvarint32", FromInt(300)),
       Item("Uvarint64", FromInt(1)),
       Item("Bitpacked", <<BitChild("Bits8", 3, 0), BitChild("Bits16", 12, 1)>>) >>

ReuseStart ==
    /\ rpc = "start"
    /\ rback = ZeroBytes(BackingLen)
    /\ rn = 0
    /\ ritem = <<>>
    /\ rprior = <<>>
    /\ rout = <<>>
    /\ rclean = <<>>

ReuseInit ==
    /\ ReuseStart
    /\ OrdIdle /\ BitIdle /\ PackIdle /\ TupIdle /\ EncIdle /\ DecIdle

\* enc.Encode(backing[:enc.Size()]), the array keeping what the calls
\* before have left in it; backing[:n] with n > len(backing) panics.
ReuseEncode ==
    /\ rpc \in {"start", "encoded"}
    /\ rn < MaxReuse
    /\ \E c \in 1..Len(ReusePool) :
          LET it == ReusePool[c]
              done(size, w, z) ==
                  IF ~w.ok
                  THEN /\ rpc' = "panicked"
                       /\ rprior' = Slice(rback, 0, size)
                       /\ UNCHANGED <<rback, rout, rclean>>
                  ELSE /\ rpc' = "encoded"
                       /\ rprior' = Slice(rback, 0, size)
                       /\ rback' = Splice(rback, 0, w.b)
                       /\ rout' = w.b
                       /\ rclean' = z.b
              encode(size) ==
                  IF size < 0 \/ size > Len(rback)
                  THEN /\ rpc' = "panicked"
                       /\ UNCHANGED <<rback, rprior, rout, rclean>>
                  ELSE done(size, ItemEncode(it, Slice(rback, 0, size)),
                            ItemEncode(it, ZeroBytes(size)))
          IN  /\ ritem' = <<it>>
              /\ encode(ItemSize(it))
    /\ rn' = rn + 1
    /\ UNCHANGED <<ordVars, bitVars, packVars, tupVars, encVars, decVars>>

ReuseNext == ReuseEncode

SpecReuse == ReuseInit /\ [][ReuseNext]_vars

(***************************************************************************)
(* Properties of the ordered varints (SpecOrd)                             *)
(***************************************************************************)
OrdEncoded == opc \in {"encoded", "decoded"}

\* C1: OrdUvarint64 is order-preserving: whenever a < b as uint64, Encode
\* succeeds on both and the bytes of a are lexicographically strictly below
\* the bytes of b.
C1_OrdUvarint64OrderPreserving ==
    (okind = "OrdUvarint64" /\ ULt(oorig[1], oorig[2])) =>
        /\ opc # "panicked"
        /\ OrdEncoded => BytesLt(ob[1], ob[2])

\* 2^56 - 1 (8 bytes) and 2^56 (the 9-byte band) have been encoded.
C1_Witness ==
    /\ okind = "OrdUvarint64"
    /\ opc = "encoded"
    /\ oorig = <<Pow2Minus1W(56), Pow2W(56)>>

\* C2: OrdVarint64 is order-preserving: whenever a < b as int64, Encode
\* succeeds on both and the bytes of a are lexicographically strictly below
\* the bytes of b.
C2_OrdVarint64OrderPreserving ==
    (okind = "OrdVarint64" /\ SLt(oorig[1], oorig[2])) =>
        /\ opc # "panicked"
        /\ OrdEncoded => BytesLt(ob[1], ob[2])

\* -2^55 + 1 (9 bytes) and -2^55 + 2 (8 bytes), both with the first byte
\* 0x00, have been encoded.
C2_Witness ==
    /\ okind = "OrdVarint64"
    /\ opc = "encoded"
    /\ oorig = <<NegPow2Plus1W(55), Inc64(NegPow2Plus1W(55))>>
    /\ Len(ob[1]) = 9 /\ Len(ob[2]) = 8
    /\ ob[1][1] = 0 /\ ob[2][1] = 0

\* Decode returned nil, restored location j to the value encoded, and used
\* exactly Size() bytes, Size() being taken at the time of Encode.
RoundTrips(j) ==
    /\ ores[j].err = "nil"
    /\ ox[j] = oorig[j]
    /\ ores[j].reads = <<osize[j]>>
    /\ Len(ob[j]) = osize[j]

\* C3: OrdUvarint64 round-trips: decoding the bytes Encode produced, with or
\* without further bytes after them, restores v and reads Size() bytes.
C3_OrdUvarint64RoundTrip ==
    (okind = "OrdUvarint64" /\ opc = "decoded") => RoundTrips(1) /\ RoundTrips(2)

\* 0 and 2^64 - 1 have been decoded from buffers with bytes after the
\* encoding.
C3_Witness ==
    /\ okind = "OrdUvarint64"
    /\ opc = "decoded"
    /\ otail # <<>>
    /\ oorig = <<Zero64, Not64(Zero64)>>

\* C4: OrdVarint64 round-trips: decoding the bytes Encode produced restores
\* v, the leading ones of a negative v included, and reads Size() bytes.
C4_OrdVarint64RoundTrip ==
    (okind = "OrdVarint64" /\ opc = "decoded") => RoundTrips(1) /\ RoundTrips(2)

\* -2^63 and -65 (a two-byte negative whose leading ones are implicit) have
\* been decoded.
C4_Witness ==
    /\ okind = "OrdVarint64"
    /\ opc = "decoded"
    /\ oorig = <<Pow2W(63), Dec64(NegPow2W(6))>>
    /\ ox = oorig
    /\ Len(ob[2]) = 2

\* The band table of OrdVarint64 for the one-byte bands, and its literal
\* vectors, for the encoding b of v.
VarintBand(v, b) ==
    /\ (SLe(NegPow2W(6), v) /\ SLe(v, NegPow2W(0))) =>
            Len(b) = 1 /\ b[1] \div 64 = 1
    /\ (SLe(Zero64, v) /\ SLe(v, Pow2Minus1W(6))) =>
            Len(b) = 1 /\ b[1] \div 64 = 2
    /\ v = Zero64 => b = <<128>>
    /\ v = NegPow2W(0) => b = <<127>>
    /\ v = FromInt(63) => b = <<191>>
    /\ v = NegPow2W(6) => b = <<64>>
    /\ v = FromInt(64) => b = <<192, 64>>

\* C5: OrdVarint64 encodes every v in [-2^6, -1] as the single byte 01xxxxxx
\* and every v in [0, 2^6) as the single byte 10xxxxxx; 0 encodes to 80, -1
\* to 7F, 63 to BF, -64 to 40 and 64 to C0 40.
C5_OrdVarint64Bands ==
    (okind = "OrdVarint64" /\ OrdEncoded) =>
        VarintBand(oorig[1], ob[1]) /\ VarintBand(oorig[2], ob[2])

\* The length and prefix rule of OrdUvarint64 for the encoding b of v, with
\* size the result of Size().
UvarintRule(v, b, size) ==
    LET L == Len64(v)
        n == IF L = 0 THEN 1 ELSE 1 + ((L - 1) \div 7)
    IN  /\ Len(b) = size
        /\ IF L > 56
           THEN b = <<255>> \o v
           ELSE /\ Len(b) = n
                /\ b[1] \div (2 ^ (8 - n)) = (2 ^ n) - 2
                /\ ZeroBytes(8 - n) \o <<b[1] % (2 ^ (8 - n))>> \o Tail(b) = v

\* C6: OrdUvarint64 encodes v of bit length L in 9 bytes, 0xFF then v
\* big-endian, when L > 56, and otherwise in 1 + (L-1)/7 bytes (1 for 0)
\* whose first byte starts with bytes-1 one bits and a zero bit, the other
\* bits holding v big-endian; Size() is the number of bytes Encode writes;
\* 0 encodes to 00, 127 to 7F and 128 to 80 80.
C6_OrdUvarint64LengthAndPrefix ==
    (okind = "OrdUvarint64" /\ OrdEncoded) =>
        /\ \A j \in 1..2 : UvarintRule(oorig[j], ob[j], osize[j])
        /\ \A j \in 1..2 :
              /\ oorig[j] = Zero64 => ob[j] = <<0>>
              /\ oorig[j] = FromInt(127) => ob[j] = <<127>>
              /\ oorig[j] = FromInt(128) => ob[j] = <<128, 128>>

\* 127 (one byte) and 128 (two bytes) have been encoded.
C6_Witness ==
    /\ okind = "OrdUvarint64"
    /\ opc = "encoded"
    /\ oorig = <<FromInt(127), FromInt(128)>>
    /\ ob = <<<<127>>, <<128, 128>>>>

\* p is a proper prefix of b.
ProperPrefix(p, b) == Len(p) < Len(b) /\ p = SubSeq(b, 1, Len(p))

\* C17: Decode of OrdUvarint64 or OrdVarint64 on a proper prefix of the
\* encoding of v, the empty buffer included, returns io.ErrUnexpectedEOF
\* (it does not panic on a read past the end) and the value location holds
\* what it held before the call.
C17_TruncatedOrdVarint ==
    (opc = "truncated") =>
        \A j \in 1..2 :
            ProperPrefix(oin[j], ob[j]) =>
                /\ ores[j].err = "ErrUnexpectedEOF"
                /\ ox[j] = Not64(oorig[j])

\* The 9-byte encoding of -2^63 less its last byte, and that of -65 less
\* its last byte, have been handed to Decode.
C17_Witness ==
    /\ okind = "OrdVarint64"
    /\ opc = "truncated"
    /\ oorig = <<Pow2W(63), Dec64(NegPow2W(6))>>
    /\ Len(oin[1]) = 8
    /\ Len(oin[2]) = 1

(***************************************************************************)
(* Properties of the bit buffer (SpecBits)                                 *)
(***************************************************************************)
\* The low n bits of x.
LowBits(x, n) == And64(x, Pow2Minus1W(n))

\* C7: after writeBits(v_i, n_i) calls that fit a zeroed buffer, a fresh
\* cursor over the same bytes reading the n_i in order gets no error and the
\* low n_i bits of each v_i.
C7_BitBufferRoundTrip ==
    (bpc \in {"reading", "failed"}) =>
        /\ bpc # "failed"
        /\ \A k \in 1..Len(bres) : bres[k] = LowBits(blog[k][1], blog[k][2])

\* A field that starts inside a byte and ends in the ninth byte after it
\* has been written and read back.
C7_Witness ==
    /\ bpc = "reading"
    /\ Len(bres) = 2
    /\ blog[1][2] = 7
    /\ blog[2][2] = 58

\* C18: a call of writeBits(x, n) or readBits(n) with the cursor plus n over
\* 8 times the byte length panics (writeBits) or returns io.ErrUnexpectedEOF
\* (readBits) with the bytes and the cursor as before; any other call
\* returns with the cursor advanced by n and the bytes before the cursor's
\* starting byte as before.
C18_BitBufferOverrun ==
    \A c \in {blast[k] : k \in 1..Len(blast)} :
        LET cursor == IF c.method = "writeBits" THEN bi ELSE bri
        IN  IF c.i + c.n > 8 * Len(c.b)
            THEN /\ c.end = IF c.method = "writeBits" THEN "panic"
                                                       ELSE "ErrUnexpectedEOF"
                 /\ bbuf = c.b
                 /\ cursor = c.i
            ELSE /\ c.end = IF c.method = "writeBits" THEN "returned" ELSE "nil"
                 /\ cursor = c.i + c.n
                 /\ SubSeq(bbuf, 1, c.i \div 8) = SubSeq(c.b, 1, c.i \div 8)

\* readBits(12) has returned io.ErrUnexpectedEOF with the cursor at bit 8
\* of a 2-byte buffer.
C18_Witness ==
    /\ bpc = "failed"
    /\ Len(blast) = 1
    /\ blast[1].method = "readBits"
    /\ blast[1].n = 12
    /\ blast[1].i = 8
    /\ Len(bbuf) = 2

(***************************************************************************)
(* Properties of Bitpacked (SpecPack)                                      *)
(***************************************************************************)
\* Bit k (0 the lowest) of the word x.
WordBit(x, k) == BitOf(x[8 - (k \div 8)], k % 8)

\* The bits a child stands for, the first to be written first.
ChildBits(it) ==
    IF it.kind = "BitPadding" THEN [j \in 1..it.n |-> 0]
    ELSE IF it.kind = "BitFlags" THEN [j \in 1..Len(it.v) |-> IF it.v[j] THEN 1 ELSE 0]
    ELSE IF it.kind = "Bit" THEN <<IF it.v THEN 1 ELSE 0>>
    ELSE [j \in 1..it.n |-> WordBit(BitsWord(it), it.n - j)]

RECURSIVE LayoutBits(_, _)
LayoutBits(items, k) ==
    IF k = 0 THEN <<>> ELSE LayoutBits(items, k - 1) \o ChildBits(items[k])

\* The bits packed 8 to a byte, the first bit the high bit of byte 0, zero
\* bits after the last.
PackBits(bits) ==
    [b \in 1..((Len(bits) + 7) \div 8) |->
        LET bit(j) == IF 8 * (b - 1) + j <= Len(bits)
                      THEN bits[8 * (b - 1) + j] * (2 ^ (8 - j))
                      ELSE 0
        IN  bit(1) + bit(2) + bit(3) + bit(4) + bit(5) + bit(6) + bit(7) + bit(8)]

\* C8: Encode of a Bitpacked item into a zeroed slice of Size() bytes does
\* not panic and yields the children's bits in order, each child's bits
\* most significant first, from the high bit of byte 0 on, and zero bits up
\* to the byte boundary.
C8_BitpackedLayout ==
    /\ ppc # "panicked"
    /\ ppc \in {"encoded", "decoded"} =>
            /\ Len(pbuf) = BitpackedSize(porig)
            /\ pbuf = PackBits(LayoutBits(porig, Len(porig)))

\* A 3-bit child followed by a 64-bit child has been encoded.
C8_Witness ==
    /\ ppc = "encoded"
    /\ Len(porig) = 2
    /\ porig[1].n = 3
    /\ porig[2].n = 64
    /\ Len(pbuf) = 9

\* The sum of the children's bit sizes: the number of bits of the layout.
TotalBits(items) == Len(LayoutBits(items, Len(items)))

\* C14: Size() of a Bitpacked item is the sum of its children's bit sizes
\* rounded up to whole bytes; Encode into a slice of Size() bytes passes its
\* size check and leaves the bit cursor at that sum, and so does every
\* Decode that returns nil.
C14_BitpackedSizeAndCursor ==
    /\ ppc # "idle" => BitpackedSize(porig) = (TotalBits(porig) + 7) \div 8
    /\ ppc # "panicked"
    /\ ppc = "encoded" =>
            /\ Len(pbuf) = (TotalBits(porig) + 7) \div 8
            /\ pcur = TotalBits(porig)
    /\ (ppc = "decoded" /\ perr = "nil") => pcur = TotalBits(porig)

\* Three flags and a 12-bit field, 15 bits in 2 bytes, have been decoded.
C14_Witness ==
    /\ ppc = "decoded"
    /\ perr = "nil"
    /\ Len(porig) = 2
    /\ porig[1].kind = "BitFlags"
    /\ porig[2].n = 12
    /\ pcur = 15
    /\ Len(pbuf) = 2

(***************************************************************************)
(* Properties of Tuple (SpecTuple)                                         *)
(***************************************************************************)
\* The values of a child's fields, each as its low n bits.
ChildFields(it) ==
    IF it.kind = "BitPadding" THEN <<>>
    ELSE IF it.kind = "BitFlags" THEN [j \in 1..Len(it.v) |-> BoolBit(it.v[j])]
    ELSE IF it.kind = "Bit" THEN <<BoolBit(it.v)>>
    ELSE <<LowBits(BitsWord(it), it.n)>>

RECURSIVE ItemFields(_, _)
ItemFields(children, k) ==
    IF k = 0 THEN <<>> ELSE ItemFields(children, k - 1) \o ChildFields(children[k])

\* The fields of items 1..n of a tuple, in declaration order.
RECURSIVE TupleFields(_, _)
TupleFields(items, n) ==
    IF n = 0 THEN <<>>
    ELSE TupleFields(items, n - 1) \o ItemFields(items[n].v, Len(items[n].v))

\* a before b in lexicographic order, fields compared as unsigned numbers.
RECURSIVE FieldsLtFrom(_, _, _)
FieldsLtFrom(a, b, i) ==
    IF i > Len(a) \/ i > Len(b) THEN Len(a) < Len(b)
    ELSE IF a[i] # b[i] THEN ULt(a[i], b[i])
    ELSE FieldsLtFrom(a, b, i + 1)

\* The two tuples' EncodePrefix(n) outputs order as their first n items'
\* fields do, and are equal only if the fields are.
PrefixOrdered(n) ==
    /\ FieldsLtFrom(TupleFields(torig[1], n), TupleFields(torig[2], n), 1)
            <=> BytesLt(tb[1], tb[2])
    /\ FieldsLtFrom(TupleFields(torig[2], n), TupleFields(torig[1], n), 1)
            <=> BytesLt(tb[2], tb[1])
    /\ TupleFields(torig[1], n) # TupleFields(torig[2], n) => tb[1] # tb[2]

\* C9: for two Tuples of Bitpacked items with the same child widths and
\* every n from 1 to the arity, EncodePrefix(n) does not panic and the byte
\* order of the two outputs is the order of the two value sequences, fields
\* in declaration order and each as its low bits; distinct value sequences
\* do not encode to equal bytes.
C9_TuplePrefixOrder ==
    (tn >= 1 /\ tn <= Len(torig[1])) =>
        /\ tpc # "panicked"
        /\ tpc \in {"encoded", "decoded"} => PrefixOrdered(tn)

\* Two tuples of arity 2 that differ have been encoded with n = 2.
C9_Witness ==
    /\ tpc = "encoded"
    /\ tn = 2
    /\ Len(torig[1]) = 2
    /\ torig[1] # torig[2]

\* The sum of the sizes the calls of SizeTuple in the encode pass returned:
\* the bytes that pass slices from the buffer.
RECURSIVE SlicedBytes(_, _)
SlicedBytes(items, n) ==
    IF n = 0 THEN 0 ELSE SlicedBytes(items, n - 1) + ItemSize(items[n])

\* C15: in EncodePrefix(n) and DecodePrefix(buf, n) with 1 <= n <= the
\* number of items, every call of SizeTuple, EncodeTuple or DecodeTuple for
\* the item at index i passes last = TRUE exactly when i = n-1, and the
\* buffer EncodePrefix returns is as long as the bytes its encode pass
\* slices.
C15_TupleLastFlag ==
    (tn >= 1 /\ tn <= Len(torig[1]) /\ tpc \in {"encoded", "decoded"}) =>
        /\ \A t \in 1..2 :
              /\ Len(tcalls[t]) = IF tpc = "encoded" THEN 3 * tn ELSE tn
              /\ \A c \in 1..Len(tcalls[t]) :
                    tcalls[t][c].last = (tcalls[t][c].i = tn - 1)
        /\ \A t \in 1..2 : Len(tb[t]) = SlicedBytes(torig[t], tn)

\* EncodePrefix(1) has returned on a Tuple of two items.
C15_Witness ==
    /\ tpc = "encoded"
    /\ tn = 1
    /\ Len(torig[1]) = 2
    /\ Len(tcalls[1]) = 3

(***************************************************************************)
(* Properties of Encoding (Spec)                                           *)
(***************************************************************************)
\* C10: the buffer Encode returns is as long as the sum of the items'
\* Size() before Encode; item k was handed, and its bytes fill, the range
\* from the sum of the sizes of the items before it to that sum plus its
\* own size; and every value location holds what it held before.
C10_EncodeSizeAgreement ==
    (epc = "encoded") =>
        /\ Len(ebuf) = SumSizes(eorig, Len(eorig))
        /\ Len(eranges) = Len(eorig)
        /\ \A k \in 1..Len(eorig) :
              /\ eranges[k] = <<SumSizes(eorig, k - 1), SumSizes(eorig, k)>>
              /\ Slice(ebuf, SumSizes(eorig, k - 1), SumSizes(eorig, k))
                    = ItemEncode(eorig[k], ZeroBytes(ItemSize(eorig[k]))).b
        /\ eitems = eorig

\* An OrdVarint64 of two bytes followed by a Bitpacked item of two bytes
\* has been encoded.
C10_Witness ==
    /\ epc = "encoded"
    /\ Len(eorig) = 2
    /\ eorig[1].kind = "OrdVarint64"
    /\ eorig[2].kind = "Bitpacked"
    /\ eranges = << <<0, 2>>, <<2, 4>> >>
    /\ Len(ebuf) = 4

(***************************************************************************)
(* Properties of Encoding.Decode (SpecDecode)                              *)
(***************************************************************************)
\* What item j's own Decode makes of the buffer from the offset it was
\* handed, its value location holding what it held before the call.
OwnDecode(j) == ItemDecode(dorig[j], Slice(dafter, doffs[j], Len(dafter)))

\* C11: when the Decode of item k returns an error, Encoding.Decode returns
\* that error without calling a later item: the items after k hold what
\* they held before the call and the items before k hold what they decoded;
\* decoding 12 34 02 into (BigEndianUint16, Bool) returns ErrInvalidBool with
\* the uint16 0x1234 and the bool unchanged.
C11_DecodeErrorPropagation ==
    (dpc = "decoded" /\ derr # "nil") =>
        LET k == Len(doffs)
        IN  /\ k >= 1 /\ k <= Len(dorig)
            /\ Len(dreads) = k - 1
            /\ derr = OwnDecode(k).err
            /\ \A j \in (k + 1)..Len(dorig) : ditems[j] = dorig[j]
            /\ \A j \in 1..(k - 1) :
                  /\ OwnDecode(j).err = "nil"
                  /\ ditems[j].v = OwnDecode(j).v
            /\ (dbuf = <<18, 52, 2>> /\ dorig[1].kind = "BigEndianUint16"
                    /\ Len(dorig) = 2 /\ dorig[2].kind = "Bool") =>
                  /\ derr = "ErrInvalidBool"
                  /\ ditems[1].v = 4660
                  /\ ditems[2].v = dorig[2].v

\* 12 34 02 has been decoded into (BigEndianUint16, Bool), the uint16
\* holding 0xBEEF before.
C11_Witness ==
    /\ dpc = "decoded"
    /\ dbuf = <<18, 52, 2>>
    /\ Len(dorig) = 2
    /\ dorig[1].kind = "BigEndianUint16" /\ dorig[1].v = 48879
    /\ dorig[2].kind = "Bool" /\ dorig[2].v = TRUE
    /\ derr = "ErrInvalidBool"
    /\ ditems[1].v # dorig[1].v

(***************************************************************************)
(* Properties of the length-delimited items (Spec, SpecDecode)             *)
(***************************************************************************)
LengthDelimKinds == {"LengthDelimBytes", "LengthDelimString"}

\* The plain unsigned varint of len(v) followed by the bytes of v.
LengthDelimited(v) ==
    LET p == PutUvarint(ZeroBytes(10), FromInt(Len(v)))
    IN  SubSeq(p.b, 1, p.n) \o v

\* C12: Encode of an Encoding with LengthDelimBytes or LengthDelimString
\* items does not panic, whatever the values, the empty one included, and
\* the bytes of each such item are the plain unsigned varint of len(v)
\* followed by all the bytes of v.
C12_LengthDelimEncode ==
    (\E k \in 1..Len(eorig) : eorig[k].kind \in LengthDelimKinds) =>
        /\ epc # "panicked"
        /\ epc = "encoded" =>
              \A k \in 1..Len(eorig) :
                  eorig[k].kind \in LengthDelimKinds =>
                      Slice(ebuf, eranges[k][1], eranges[k][2])
                          = LengthDelimited(eorig[k].v)

\* LengthDelimBytes of 07 09 has been encoded on its own.
C12_Witness ==
    /\ epc = "encoded"
    /\ Len(eorig) = 1
    /\ eorig[1].kind = "LengthDelimBytes" /\ eorig[1].v = <<7, 9>>
    /\ Len(ebuf) = 3

\* buf starts with a plain uvarint l and holds at least l bytes after it.
HoldsPayload(buf) ==
    LET u == Uvarint(buf)
    IN  u.n > 0 /\ ~ULt(FromInt(Len(buf) - u.n), u.v)

\* The l bytes that follow the length prefix, and the index after them.
Payload(buf) ==
    LET u == Uvarint(buf) IN SubSeq(buf, u.n + 1, u.n + ToInt(u.v))

PayloadEnd(buf) == LET u == Uvarint(buf) IN u.n + ToInt(u.v)

\* C16: LengthDelimBytes.Decode and LengthDelimString.Decode, handed a
\* buffer that starts with a uvarint l and at least l bytes after it, return
\* nil and set the value to the l bytes that follow the prefix, and the item
\* that follows in the Encoding is decoded from the byte after them.
C16_LengthDelimDecode ==
    (dpc = "decoded" /\ dorig[1].kind \in LengthDelimKinds /\ HoldsPayload(dbuf)) =>
        /\ Len(dreads) >= 1
        /\ ditems[1].v = Payload(dbuf)
        /\ Len(dorig) >= 2 =>
              /\ Len(doffs) >= 2
              /\ doffs[2] = PayloadEnd(dbuf)

\* 02 07 09 01 has been decoded into (LengthDelimBytes, Bool).
C16_Witness ==
    /\ dpc = "decoded"
    /\ dbuf = <<2, 7, 9, 1>>
    /\ Len(dorig) = 2
    /\ dorig[1].kind = "LengthDelimBytes"
    /\ dorig[2].kind = "Bool"

(***************************************************************************)
(* Properties of Uvarint32 (SpecDecode)                                    *)
(***************************************************************************)
\* buf starts with a well-formed plain uvarint whose value is over 2^32-1.
OverUint32(buf) ==
    LET u == Uvarint(buf) IN u.n > 0 /\ ULt(MaxUint32, u.v)

\* C13: when the buffer handed to Uvarint32.Decode starts with a well-formed
\* plain uvarint over 2^32-1 (80 80 80 80 10 is 2^32), Decode returns
\* ErrOverflowVarint and the uint32 location holds what it held before.
C13_Uvarint32RejectsOverflow ==
    (dpc = "decoded" /\ dorig[1].kind = "Uvarint32" /\ OverUint32(dbuf)) =>
        /\ derr = "ErrOverflowVarint"
        /\ ditems[1].v = dorig[1].v

\* 80 80 80 80 10 has been decoded into a Uvarint32 on its own.
C13_Witness ==
    /\ dpc = "decoded"
    /\ Len(dorig) = 1
    /\ dorig[1].kind = "Uvarint32"
    /\ dbuf = <<128, 128, 128, 128, 16>>

(***************************************************************************)
(* Properties of the variable-length items in Encoding.Decode (SpecDecode) *)
(***************************************************************************)
VariableLengthKinds == {"Uvarint64", "OrdUvarint64", "OrdVarint64"}

\* C19: for every item of kind Uvarint64, OrdUvarint64 or OrdVarint64 whose
\* Decode returned nil inside Encoding.Decode, Size() after the decode, by
\* which the offset advances, is the number of bytes its decoder read, and
\* the next item is handed the buffer from the first unread byte.
C19_OffsetAdvanceEqualsBytesRead ==
    (dpc \in {"decoded", "panicked"}) =>
        \A j \in 1..Len(dreads) :
            dorig[j].kind \in VariableLengthKinds =>
                /\ ItemSize(ditems[j]) = dreads[j]
                /\ j < Len(doffs) => doffs[j + 1] = doffs[j] + dreads[j]

\* 80 00 01 has been decoded into (OrdUvarint64, Bool) without an error.
C19_Witness ==
    /\ dpc = "decoded"
    /\ derr = "nil"
    /\ dbuf = <<128, 0, 1>>
    /\ Len(dorig) = 2
    /\ dorig[1].kind = "OrdUvarint64"
    /\ dorig[2].kind = "Bool"

\* C20: OrdVarint64.Decode of a non-empty buffer returns nil or
\* io.ErrUnexpectedEOF, never ErrInvalidVarint, whatever the first byte; and
\* ordVarint64.Size returns a length from 1 to 9, never -1, on the value the
\* location holds before and after.
C20_OrdVarint64NoInvalidVarint ==
    (dpc # "idle") =>
        \A j \in 1..Len(dorig) :
            dorig[j].kind = "OrdVarint64" =>
                /\ OrdVarint64Size(dorig[j].v) \in 1..9
                /\ OrdVarint64Size(ditems[j].v) \in 1..9
                /\ (dpc = "decoded" /\ j = Len(doffs)) =>
                        /\ derr \in {"nil", "ErrUnexpectedEOF"}
                        /\ derr = "nil" => Len(dbuf) - doffs[j] >= 1

\* The first byte 0x01 (the 7-byte band) has been handed to OrdVarint64 with
\* six bytes after it.
C20_Witness ==
    /\ dpc = "decoded"
    /\ Len(dorig) = 1
    /\ dorig[1].kind = "OrdVarint64"
    /\ Len(dbuf) = 9
    /\ dbuf[1] = 1
    /\ derr = "nil"
    /\ dreads = <<7>>

\* C22: when Encoding.Decode has returned, with nil or with an error, or has
\* panicked, every byte of the buffer it was handed is what it was before
\* the call.
C22_DecodeLeavesInputUnchanged ==
    (dpc \in {"decoded", "panicked"}) => dafter = dbuf

\* LengthDelimBytes has decoded 02 07 09 01 and returned nil, and bytes 1
\* and 2 of the buffer are no longer 07 09.
C22_Witness ==
    /\ dpc = "decoded"
    /\ derr = "nil"
    /\ Len(dorig) = 1
    /\ dorig[1].kind = "LengthDelimBytes"
    /\ dbuf = <<2, 7, 9, 1>>
    /\ dafter = <<2, 0, 0, 1>>

\* C21: when Encode has returned, the Size() bytes it was handed hold what
\* Encode leaves in a zeroed slice of Size() bytes, whatever they held
\* before the call.
C21_EncodeIgnoresPriorContents ==
    (rpc = "encoded") => rout = rclean

\* OrdUvarint64 has encoded 1<<14 into the start of a backing array that
\* held the nine bytes of the encoding of ^uint64(0).
C21_Witness ==
    /\ rpc = "encoded"
    /\ rn = 2
    /\ ritem[1].kind = "OrdUvarint64"
    /\ rprior = <<255, 255, 255>>
    /\ rclean = <<192, 64, 0>>
    /\ rout = <<192, 255, 255>>

====
